---- MODULE Spec2Model ----
(***************************************************************************)
(* Dialogue / booking state machine of the hotel agent.                    *)
(*                                                                         *)
(*   src/agents/hotel_agent.py      HotelAgent (Dialogue Manager, flows)   *)
(*   src/agents/graph_builder.py    HotelGraphBuilder (orchestration)      *)
(*   src/integrations/ai_client.py  AIClient (classifier, Slot Extractor)  *)
(*                                                                         *)
(* models/booking_models.py and database/db_manager.py are imported by the *)
(* sources but are not part of them; ConversationState, Booking,           *)
(* calculate_total_price, validate_booking_data, generate_booking_id and   *)
(* the DatabaseManager calls follow sections 3, 4.2 and 6 of the design.   *)
(*                                                                         *)
(* Encoding.  A calendar date string is the number of its day (BadDate is  *)
(* a string that datetime.strptime rejects); a datetime is a tick count,   *)
(* TicksPerDay ticks to the day.  A Python dict is a function whose DOMAIN *)
(* is its key set, a key that maps to None is left out of the DOMAIN.      *)
(* An utterance is the record of what the code's string tests and regular  *)
(* expressions find in it.                                                 *)
(***************************************************************************)
EXTENDS Integers, Sequences, FiniteSets, TLC

\* ------------------------------------------------------------------ bounds
MaxDay == 3
MaxNow == 2
TicksPerDay == 2
MaxBookings == 2
MaxTurns == 5
MaxGuestTurns == 6
MaxFaultTurns == 4
MaxGraphTurns == 3
MaxStepTurns == 2
MaxSlotTurns == 4
MaxRaceCalls == 2
MaxOverlapCalls == 2
MaxPartyTurns == 4
MaxChangeTurns == 6
MaxStatusTurns == 7
MaxPathTurns == 4

\* date-like tokens in one utterance given to the rule-based extractor
MaxDates == 2

\* ------------------------------------------------------- program constants
MaxMessageLen == 1000
MinGuests == 1
MaxGuests == 10
MinAnswerLen == 50

BadDate == 0 - 1
NoGuests == 0 - 1

Users == {"u1", "u2"}

\* the guest of the one-guest dialogues, and a caller without a user id
Callers == {"u1", ""}

Days == 0..MaxDay

\* a day, or a date string that does not parse
ProbeDates == Days \cup {BadDate}

\* ------------------------------------------------------------ text helpers
\* str.lower() on the strings the model uses
Lower(s) ==
  CASE s = "CONFIRM CANCEL" -> "confirm cancel"
    [] s = "Confirm Cancel" -> "confirm cancel"
    [] s = "BK1" -> "bk1"
    [] s = "BK2" -> "bk2"
    [] s = "BK3" -> "bk3"
    [] s = "BK4" -> "bk4"
    [] s = "BK5" -> "bk5"
    [] s = "BK6" -> "bk6"
    [] s = "BK9" -> "bk9"
    [] s = "Bk1" -> "bk1"
    [] s = " Booking " -> " booking "
    [] s = "CANCEL" -> "cancel"
    [] s = "Deluxe" -> "deluxe"
    [] s = " Suite " -> " suite "
    [] s = "STANDARD" -> "standard"
    [] s = "Standard" -> "standard"
    [] OTHER -> s

\* str.upper() on the strings the model uses
Upper(s) ==
  CASE s = "bk1" -> "BK1"
    [] s = "bk2" -> "BK2"
    [] s = "bk3" -> "BK3"
    [] s = "bk4" -> "BK4"
    [] s = "bk5" -> "BK5"
    [] s = "bk6" -> "BK6"
    [] s = "bk9" -> "BK9"
    [] s = "Bk1" -> "BK1"
    [] OTHER -> s

\* str.strip() on the strings the model uses
Strip(s) ==
  CASE s = " booking " -> "booking"
    [] s = " Booking " -> "Booking"
    [] s = " suite " -> "suite"
    [] s = " Suite " -> "Suite"
    [] s = "  " -> ""
    [] OTHER -> s

\* ------------------------------------------------------------ hotel catalog
FallbackHotelData ==
  [name |-> "Grand Hotel",
   room_types |-> [r \in {"standard", "deluxe", "suite"} |->
                     CASE r = "standard" -> 100
                       [] r = "deluxe" -> 150
                       [] r = "suite" -> 250]]

\* a data/hotel_data.json whose room types differ from the built-in ones,
\* one of them entered with a price of 0
CustomHotelData ==
  [name |-> "Sea View",
   room_types |-> [r \in {"deluxe", "suite", "penthouse"} |->
                     CASE r = "deluxe" -> 120
                       [] r = "suite" -> 0
                       [] r = "penthouse" -> 400]]

\* a data/hotel_data.json without room types
EmptyHotelData ==
  [name |-> "Closed Inn", room_types |-> [r \in {} |-> 0]]

Catalogs == {FallbackHotelData, CustomHotelData, EmptyHotelData}

\* the keys of room_types in the order of the catalog
CatalogOrder(info) ==
  CASE info = FallbackHotelData -> <<"standard", "deluxe", "suite">>
    [] info = CustomHotelData -> <<"deluxe", "suite", "penthouse">>
    [] info = EmptyHotelData -> <<>>

\* ------------------------------------------------------------- dict helpers
BookingFields ==
  <<"check_in_date", "check_out_date", "room_type", "num_guests",
    "guest_name", "guest_email", "guest_phone">>

FieldSet == {BookingFields[i] : i \in 1..Len(BookingFields)}

DateFields == {"check_in_date", "check_out_date"}

EmptyDict == [k \in {} |-> 0]

Has(d, k) == k \in DOMAIN d

\* Python truthiness of d.get(k)
Truthy(d, k) ==
  /\ k \in DOMAIN d
  /\ IF k = "num_guests" THEN d[k] # 0
     ELSE IF k \in DateFields THEN TRUE
     ELSE d[k] # ""

Put(d, k, v) == [x \in DOMAIN d \cup {k} |-> IF x = k THEN v ELSE d[x]]

\* F applied to the value of x, which is computed once
With(x, F(_)) == CHOOSE y \in {F(v) : v \in {x}} : TRUE

\* ---------------------------------------------------------------- utterances
\* What the code can observe of an utterance:
\*   len, pad  characters after strip(), and whitespace removed by strip()
\*   phrase    the text that holds the confirmation phrase, "" when none
\*   bk        first match of bk[a-zA-Z0-9]+ (as typed), "" when none
\*   kws       inquiry keyword groups that occur in the lower-cased text
\*   dates     the date-like tokens in order of appearance: fmt is the
\*             pattern that matches ("iso", "mdy", "dmy"), day the date it
\*             normalizes to, known FALSE for a dmy token whose month word
\*             is not in month_map
\*   datekw    check-in / check-out keyword present in the lower-cased text
\*   rooms     room words as typed
\*   guests    the integer in front of "guest", NoGuests when none
\*   email, phone   first regex match, "" when none
\*   names     the alphabetic words longer than 2 that are no booking terms
Msg(len, pad, phrase, bk, kws, dates, datekw, rooms, guests, email, phone, names) ==
  [len |-> len, pad |-> pad, phrase |-> phrase, bk |-> bk, kws |-> kws,
   dates |-> dates, datekw |-> datekw, rooms |-> rooms, guests |-> guests,
   email |-> email, phone |-> phone, names |-> names]

Tok(fmt, day) == [fmt |-> fmt, day |-> day, known |-> TRUE]

\* the position of a format in date_patterns
FormatRank(fmt) == CASE fmt = "iso" -> 1 [] fmt = "mdy" -> 2 [] fmt = "dmy" -> 3

\* ""
MsgEmpty == Msg(0, 0, "", "", {}, <<>>, "", {}, NoGuests, "", "", <<>>)
\* "  "
MsgBlank == Msg(0, 2, "", "", {}, <<>>, "", {}, NoGuests, "", "", <<>>)
\* "a" * 1001
MsgLong == Msg(MaxMessageLen + 1, 0, "", "", {}, <<>>, "", {}, NoGuests, "", "", <<>>)
\* " " + "?" * 1000
MsgLimit == Msg(MaxMessageLen, 1, "", "", {}, <<>>, "", {}, NoGuests, "", "", <<>>)
\* "Hello!"
MsgHello == Msg(6, 0, "", "", {"hi"}, <<>>, "", {}, NoGuests, "", "", <<"Hello">>)
\* "I want to book a room"
MsgBook == Msg(21, 0, "", "", {"room"}, <<>>, "", {}, NoGuests, "", "", <<"want">>)
\* "Deluxe for 2 guests from <day 1> to <day 2>, Jane Roe, jane@example.com, 5550123456"
MsgDetails ==
  Msg(80, 0, "", "", {}, <<Tok("iso", 1), Tok("iso", 2)>>, "", {"Deluxe"}, 2,
      "jane@example.com", "5550123456", <<"for", "guests", "from", "Jane", "Roe">>)
\* "from <day 2> to <day 2>"
MsgSameDay ==
  Msg(29, 0, "", "", {}, <<Tok("iso", 2), Tok("iso", 2)>>, "", {}, NoGuests, "", "", <<"from">>)
\* "CONFIRM CANCEL"
MsgConfirm ==
  Msg(14, 0, "CONFIRM CANCEL", "", {}, <<>>, "", {}, NoGuests, "", "", <<"CONFIRM", "CANCEL">>)
\* "yes, confirm cancel"
MsgConfirmLower ==
  Msg(19, 0, "confirm cancel", "", {}, <<>>, "", {}, NoGuests, "", "", <<"yes", "confirm", "cancel">>)
\* "cancel my reservation"
MsgCancel == Msg(21, 0, "", "", {}, <<>>, "", {}, NoGuests, "", "", <<"cancel">>)
\* "<id> <day 2> <day 3>"
MsgMove(id) ==
  Msg(25, 0, "", id, {}, <<Tok("iso", 2), Tok("iso", 3)>>, "", {}, NoGuests, "", "", <<>>)
\* "<day 2> <day 3>"
MsgNewDates ==
  Msg(21, 0, "", "", {}, <<Tok("iso", 2), Tok("iso", 3)>>, "", {}, NoGuests, "", "", <<>>)

\* "<id> <day 2> <day 2>"
MsgMoveSameDay(id) == [MsgMove(id) EXCEPT !.dates = <<Tok("iso", 2), Tok("iso", 2)>>]
\* "<id> check in <day 2>"
MsgMoveOne(id) ==
  [MsgMove(id) EXCEPT !.dates = <<Tok("iso", 2)>>, !.datekw = "check in", !.len = 22]
\* "<id>"
MsgId(id) == [MsgMove(id) EXCEPT !.dates = <<>>, !.len = 3]
\* "CONFIRM CANCEL <id>"
MsgConfirmId(id) == [MsgConfirm EXCEPT !.bk = id, !.len = 18]

\* "Standard, 3 guest"
MsgRoom == Msg(17, 0, "", "", {}, <<>>, "", {"Standard"}, 3, "", "", <<>>)
\* "Jane Roe jane@example.com 5550123456"
MsgContact ==
  Msg(36, 0, "", "", {}, <<>>, "", {}, NoGuests, "jane@example.com", "5550123456",
      <<"Jane", "Roe", "jane", "example", "com">>)

\* "Deluxe for 0 guests from <day 1> to <day 2>, Jane Roe, jane@example.com, 5550123456"
MsgNobody == [MsgDetails EXCEPT !.guests = 0]
\* "11 guests"
MsgCrowd == Msg(9, 0, "", "", {}, <<>>, "", {}, 11, "", "", <<>>)

\* the utterances of the dialogue
Messages ==
  {MsgEmpty, MsgLong, MsgLimit, MsgHello, MsgDetails,
   MsgSameDay, MsgConfirm, MsgMove("bk1"), MsgMove("BK2")}

\* further utterances, for the turns of a single guest
MoreMessages ==
  {MsgBlank, MsgBook, MsgCancel, MsgConfirmLower, MsgMove("bk9"), MsgNewDates}

RawLen(message) == message.len + message.pad

\* ---------------------------------------------- Language Understanding Service
\* text returned by AIClient._query
QueryError == "I'm having trouble processing your request right now. Please try again later."

\* replies of the service to the intent prompt
Labels ==
  {"booking", "reschedule", "cancel", "inquiry", "greeting",
   " Booking ", "", "complaint", QueryError}

ValidIntents == {"booking", "reschedule", "cancel", "inquiry", "greeting"}

\* a JSON value
JNull == [t |-> "null", s |-> "", n |-> 0]
JStr(s) == [t |-> "str", s |-> s, n |-> 0]
JNum(n) == [t |-> "num", s |-> "", n |-> n]
\* a JSON string in one of the three date formats, for the given day
JDate(day) == [t |-> "date", s |-> "", n |-> day]

\* int(s) for a JSON string: <<ok, value>>
StrInt(s) ==
  CASE s = "2" -> <<TRUE, 2>>
    [] s = "0" -> <<TRUE, 0>>
    [] s = "11" -> <<TRUE, 11>>
    [] OTHER -> <<FALSE, 0>>

\* str(n) for a JSON number
NumStr(n) ==
  CASE n = 2 -> "2"
    [] n = 5 -> "5"
    [] n = 11 -> "11"
    [] OTHER -> "0"

\* the first JSON object found in the service's reply; NoJson when the reply
\* holds none or json.loads rejects it
NoJson == [ok |-> FALSE, data |-> EmptyDict]
Json(data) == [ok |-> TRUE, data |-> data]

JsonFull ==
  Json([k \in FieldSet |->
          CASE k = "check_in_date" -> JDate(0)
            [] k = "check_out_date" -> JDate(3)
            [] k = "room_type" -> JStr(" Suite ")
            [] k = "num_guests" -> JStr("2")
            [] k = "guest_name" -> JStr("John Doe")
            [] k = "guest_email" -> JStr("john@example.com")
            [] k = "guest_phone" -> JStr("1234567890")])

JsonAllNull == Json([k \in FieldSet |-> JNull])

\* an object with keys beyond the seven, a room and a blank name
JsonExtra ==
  Json([k \in FieldSet \cup {"loyalty_tier", "notes"} |->
          CASE k = "room_type" -> JStr(" Suite ")
            [] k = "guest_name" -> JStr("  ")
            [] k = "loyalty_tier" -> JStr("gold")
            [] k = "notes" -> JNum(5)
            [] OTHER -> JNull])

\* an object that holds a guest count and nothing else
JsonGuests(n) == Json([k \in FieldSet |-> IF k = "num_guests" THEN JNum(n) ELSE JNull])

JsonReplies == {NoJson, JsonFull}

\* every reply of the service to the extraction prompt that the model draws
AnyJsonReply == {NoJson, JsonFull, JsonExtra, JsonAllNull}

MoreJsonReplies == {JsonAllNull}

\* replies of the service to the free-form question
Answers == {"Yes.", QueryError}

AnswerLen(a) == IF a = "Yes." THEN 4 ELSE 77

\* ------------------------------------------------------------ Slot Extractor
\* AIClient._normalize_date on a JSON value: <<found, day>>
NormalizeJsonDate(v) ==
  IF v.t = "date" THEN <<TRUE, v.n>> ELSE <<FALSE, BadDate>>

\* the catch-all branch of _normalize_booking_data:
\* str(value).strip() if value else None, as <<present, text>>
StrOrNone(v) ==
  CASE v.t = "str" -> IF v.s = "" THEN <<FALSE, "">> ELSE <<TRUE, Strip(v.s)>>
    [] v.t = "num" -> IF v.n = 0 THEN <<FALSE, "">> ELSE <<TRUE, NumStr(v.n)>>
    [] v.t = "date" -> <<TRUE, "date">>
    [] OTHER -> <<FALSE, "">>

\* one key of AIClient._normalize_booking_data: <<present, value>>
NormalizeField(key, v) ==
  IF v.t = "null" THEN <<FALSE, 0>>
  ELSE IF key \in DateFields /\ v.t \in {"str", "date"} THEN NormalizeJsonDate(v)
  ELSE IF key \in DateFields THEN
    \* a number: kept as text, which is no date
    IF StrOrNone(v)[1] THEN <<TRUE, BadDate>> ELSE <<FALSE, BadDate>>
  ELSE IF key = "room_type" /\ v.t \in {"str", "date"} THEN
    IF Strip(Lower(v.s)) \in {"standard", "deluxe", "suite"}
    THEN <<TRUE, Strip(Lower(v.s))>> ELSE <<FALSE, "">>
  ELSE IF key = "num_guests" THEN
    CASE v.t = "num" -> <<TRUE, v.n>>
      [] v.t = "str" -> StrInt(v.s)
      [] OTHER -> <<FALSE, 0>>
  ELSE StrOrNone(v)

_normalize_booking_data_AnyKey(data) ==
  LET keys == {k \in DOMAIN data : NormalizeField(k, data[k])[1]}
  IN [k \in keys |-> NormalizeField(k, data[k])[2]]

\* AIClient._normalize_booking_data
_normalize_booking_data(data) ==
  LET keys == {k \in DOMAIN data \cap FieldSet : NormalizeField(k, data[k])[1]}
  IN [k \in keys |-> NormalizeField(k, data[k])[2]]

\* AIClient._extract_booking_info_ai
_extract_booking_info_ai(json) ==
  IF json.ok THEN _normalize_booking_data(json.data) ELSE EmptyDict

\* dates_found: the matches of the three patterns, pattern by pattern
DatesFound(message) ==
  SelectSeq(message.dates, LAMBDA t : t.fmt = "iso")
    \o SelectSeq(message.dates, LAMBDA t : t.fmt = "mdy")
    \o SelectSeq(message.dates, LAMBDA t : t.fmt = "dmy")

\* normalized_dates: the matches that _normalize_date accepts
NormalizedDates(message) ==
  LET found == SelectSeq(DatesFound(message), LAMBDA t : t.known)
  IN [i \in 1..Len(found) |-> found[i].day]

\* " ".join(potential_names[:2])
Join2(a, b) ==
  CASE a = "for" /\ b = "guests" -> "for guests"
    [] a = "CONFIRM" /\ b = "CANCEL" -> "CONFIRM CANCEL"
    [] a = "Jane" /\ b = "Roe" -> "Jane Roe"
    [] OTHER -> a

\* the first of standard, deluxe, suite that occurs in message_lower
RuleRoom(message) ==
  LET found == {Lower(w) : w \in message.rooms}
  IN IF "standard" \in found THEN "standard"
     ELSE IF "deluxe" \in found THEN "deluxe"
     ELSE IF "suite" \in found THEN "suite"
     ELSE ""

\* the dates that _extract_booking_info_rules assigns
RuleDates(message) ==
  With(NormalizedDates(message),
       LAMBDA nd :
         IF Len(nd) >= 2
         THEN Put(Put(EmptyDict, "check_in_date", nd[1]), "check_out_date", nd[2])
         ELSE IF Len(nd) = 1 /\ message.datekw \in {"check in", "both"}
         THEN Put(EmptyDict, "check_in_date", nd[1])
         ELSE IF Len(nd) = 1 /\ message.datekw = "check out"
         THEN Put(EmptyDict, "check_out_date", nd[1])
         ELSE EmptyDict)

\* if found: booking_data[key] = value
PutIf(found, d, key, value) == IF found THEN Put(d, key, value) ELSE d

\* AIClient._extract_booking_info_rules
_extract_booking_info_rules(message) ==
  PutIf(Len(message.names) >= 2,
    PutIf(message.phone # "",
      PutIf(message.email # "",
        PutIf(message.guests # NoGuests,
          PutIf(RuleRoom(message) # "", RuleDates(message),
                "room_type", RuleRoom(message)),
          "num_guests", message.guests),
        "guest_email", message.email),
      "guest_phone", message.phone),
    "guest_name", Join2(message.names[1], message.names[2]))

\* AIClient.extract_booking_info
extract_booking_info(message, json) ==
  With(_extract_booking_info_ai(json),
       LAMBDA ai_result :
         IF \A k \in DOMAIN ai_result : ~Truthy(ai_result, k)
         THEN _extract_booking_info_rules(message)
         ELSE ai_result)

extract_intent_NoDefault(label) == Strip(Lower(label))

\* AIClient.extract_intent
extract_intent(label) ==
  LET response_normalized == Strip(Lower(label))
  IN IF response_normalized \in ValidIntents THEN response_normalized ELSE "inquiry"

\* ------------------------------------------------------------ booking models
\* ConversationState(user_id=...)
NewConversationState(user_id) ==
  [user_id |-> user_id, current_step |-> "greeting",
   last_message |-> MsgEmpty, booking_data |-> EmptyDict]

\* models.booking_models.validate_booking_data: the required fields that are absent
validate_booking_data(booking_data) ==
  SelectSeq(BookingFields, LAMBDA k : ~Has(booking_data, k))

\* nights between two parseable dates
Nights(check_in, check_out) == check_out - check_in

\* models.booking_models.calculate_total_price
calculate_total_price(price, check_in, check_out) ==
  IF check_in = BadDate \/ check_out = BadDate THEN 0
  ELSE price * Nights(check_in, check_out)

\* the identifiers generate_booking_id hands out, in order
BookingIds == <<"BK1", "BK2", "BK3", "BK4", "BK5", "BK6">>

generate_booking_id(bookings) == BookingIds[Cardinality(DOMAIN bookings) + 1]

\* Booking(...): status defaults to confirmed, both timestamps to the clock
NewBooking(booking_id, user_id, booking_data, room_type, total_price, now) ==
  [booking_id |-> booking_id, user_id |-> user_id,
   check_in_date |-> booking_data["check_in_date"],
   check_out_date |-> booking_data["check_out_date"],
   room_type |-> room_type,
   num_guests |-> booking_data["num_guests"],
   guest_name |-> booking_data["guest_name"],
   guest_email |-> booking_data["guest_email"],
   guest_phone |-> booking_data["guest_phone"],
   total_price |-> total_price, status |-> "confirmed",
   created_at |-> now, updated_at |-> now]

\* ------------------------------------------------------- Persistence Store
\* outcome of the store calls of one turn: at most one call goes wrong
Faults ==
  {"none", "get_state_raises", "save_state_false", "save_state_raises",
   "list_raises", "get_booking_raises", "save_booking_false", "save_booking_raises"}

\* DatabaseManager.get_user_bookings, in stored order
get_user_bookings(bookings, user_id) ==
  SelectSeq([i \in 1..Len(BookingIds) |-> BookingIds[i]],
            LAMBDA id : id \in DOMAIN bookings /\ bookings[id].user_id = user_id)

ActiveBookings_AnyStatus(bookings, user_id) == get_user_bookings(bookings, user_id)

\* [b for b in bookings if b.status == "confirmed"]
ActiveBookings(bookings, user_id) ==
  SelectSeq(get_user_bookings(bookings, user_id),
            LAMBDA id : bookings[id].status = "confirmed")

\* DatabaseManager.save_booking: upsert by booking id
save_booking(bookings, booking) ==
  [id \in DOMAIN bookings \cup {booking.booking_id} |->
     IF id = booking.booking_id THEN booking ELSE bookings[id]]

\* DatabaseManager.save_conversation_state: upsert by user id; last_message
\* is transient (section 3) and is not kept
save_conversation_state(states, state) ==
  [u \in DOMAIN states \cup {state.user_id} |->
     IF u = state.user_id THEN [state EXCEPT !.last_message = MsgEmpty] ELSE states[u]]

\* ------------------------------------------------------------ handler results
\* What a handler leaves behind: its reply, the ConversationState object it
\* worked on, the booking store, the handlers entered (in order), the answer
\* of save_booking ("" when it was not called) and whether it raised.
Ret(reply, state, bookings, trace, saved) ==
  [reply |-> reply, state |-> state, bookings |-> bookings,
   trace |-> trace, saved |-> saved, raised |-> FALSE]

Raised(state, bookings, trace, saved) ==
  [reply |-> "", state |-> state, bookings |-> bookings,
   trace |-> trace, saved |-> saved, raised |-> TRUE]

\* try: ... except Exception: return apology
Catch(r, apology) ==
  With(r, LAMBDA v : IF v.raised THEN [v EXCEPT !.reply = apology, !.raised = FALSE] ELSE v)

\* ConversationState.update_step
update_step(state, step) == [state EXCEPT !.current_step = step]

\* ConversationState.clear_booking_data
clear_booking_data(state) == [state EXCEPT !.booking_data = EmptyDict]

\* ------------------------------------------------------------------ Validator
Midnight(day) == day * TicksPerDay
DateOf(ticks) == ticks \div TicksPerDay

_validate_dates_TimeOfDay(check_in, check_out, now) ==
  IF check_in = BadDate \/ check_out = BadDate THEN FALSE
  ELSE /\ Midnight(check_in) >= now
       /\ Midnight(check_out) > Midnight(check_in)

\* HotelAgent._validate_dates
_validate_dates(check_in, check_out, now) ==
  IF check_in = BadDate \/ check_out = BadDate THEN FALSE
  ELSE /\ DateOf(Midnight(check_in)) >= DateOf(now)
       /\ Midnight(check_out) > Midnight(check_in)

DateError == "Please check your dates. The check-out date must be after the check-in date, and both dates should be in the future."
RoomError == "is not available. Our available room types are:"
GuestRangeError == "Number of guests must be between 1 and 10."

\* HotelAgent._validate_booking_input: "" stands for None
_validate_booking_input(booking_data, hotel_info, now) ==
  IF /\ Truthy(booking_data, "check_in_date") /\ Truthy(booking_data, "check_out_date")
     /\ ~_validate_dates(booking_data["check_in_date"], booking_data["check_out_date"], now)
  THEN DateError
  ELSE IF /\ Truthy(booking_data, "room_type")
          /\ Lower(booking_data["room_type"]) \notin DOMAIN hotel_info.room_types
  THEN RoomError
  ELSE IF /\ Truthy(booking_data, "num_guests")
          /\ (booking_data["num_guests"] < MinGuests \/ booking_data["num_guests"] > MaxGuests)
  THEN GuestRangeError
  ELSE ""

\* ------------------------------------------------------------ reply texts
\* the replies of HotelAgent, by the place that returns
\* them; a formatted reply is its fixed opening
ReplyText ==
  [BadInput |-> "I didn't receive your message properly. Please try again.",
   TooLong |-> "Please keep your message under 1000 characters.",
   TurnError |-> "I encountered an error processing your request. Please try again later.",
   Greeting |-> "Hello! Welcome",
   BookingError |-> "I encountered an error while processing your booking. Please try again.",
   DetailsError |-> "I encountered an error while processing your booking details. Please try again.",
   NoRooms |-> "I'm sorry, but room information is currently unavailable. Please try again later.",
   Checklist |-> "Perfect! I'd love to help you book a room.",
   Missing |-> "Great! I have the following information:",
   Price |-> "Please check your dates. There seems to be an issue with the date calculation.",
   Confirmed |-> "Booking Confirmed!",
   SaveBookingFailed |-> "I'm sorry, there was an error saving your booking. Please try again or contact us directly.",
   CreateError |-> "I encountered an error while creating your booking. Please try again.",
   NoReschedule |-> "You don't have any active bookings to reschedule. Would you like to make a new booking instead?",
   RescheduleOne |-> "I found your booking: Please provide your new preferred dates",
   RescheduleMany |-> "You have multiple bookings: Please specify which booking ID you'd like to reschedule and provide the new dates.",
   ListError |-> "I encountered an error while retrieving your bookings. Please try again.",
   NotFound |-> "Booking not found or you don't have permission to modify it.",
   Rescheduled |-> "Booking rescheduled successfully!",
   UpdateFailed |-> "Error updating booking. Please try again.",
   InvalidDates |-> "Invalid dates. Please ensure check-out is after check-in and both dates are in the future.",
   NeedDates |-> "Please provide both check-in and check-out dates in YYYY-MM-DD format.",
   NeedId |-> "Please provide the booking ID and new dates you'd like to reschedule to.",
   NoCancel |-> "You don't have any active bookings to cancel.",
   CancelOne |-> "I found your booking: Type 'CONFIRM CANCEL' if you want to proceed with cancelling this booking.",
   CancelMany |-> "You have multiple bookings: Please specify which booking ID you'd like to cancel.",
   NothingToCancel |-> "No active bookings found to cancel.",
   Cancelled |-> "Booking cancelled successfully!",
   CancelFailed |-> "Error cancelling booking. Please try again or contact us directly.",
   WhichBooking |-> "Please specify which booking ID you'd like to cancel.",
   Amenities |-> "Amenities:",
   Policies |-> "Hotel Policies:",
   Rooms |-> "Available Rooms:",
   RoomsUnavailable |-> "Room information is currently unavailable. Please contact us directly.",
   Help |-> "I'm here to help with your hotel needs!",
   Answer |-> "answer of the service",
   AnswerWithFooter |-> "answer of the service, I can also help you with:"]

\* ---------------------------------------------------------------- handlers
\* e is what the turn meets outside the agent: the clock (now), the catalog
\* (hotel_info), the store call that goes wrong (fault) and the service's
\* replies to the extraction prompt (json) and to the question (answer).

_handle_greeting_NoStep(state, bookings, e) ==
  Ret(ReplyText.Greeting, state, bookings, <<"greeting">>, "")

\* HotelAgent._handle_greeting
_handle_greeting(state, bookings, e) ==
  Ret(ReplyText.Greeting, update_step(state, "greeting"), bookings, <<"greeting">>, "")

\* HotelAgent._start_booking_flow
_start_booking_flow(state, bookings, e) ==
  LET st == update_step(state, "get_booking_details")
  IN IF DOMAIN e.hotel_info.room_types = {}
     THEN Ret(ReplyText.NoRooms, st, bookings, <<"booking">>, "")
     ELSE Ret(ReplyText.Checklist, st, bookings, <<"booking">>, "")

CompletedState_NoClear(state) == update_step(state, "booking_complete")

\* the ConversationState after save_booking answered True in _create_booking
CompletedState(state) ==
  clear_booking_data(update_step(state, "booking_complete"))

\* HotelAgent._create_booking
_create_booking(state, bookings, e) ==
  LET room_type == Lower(state.booking_data["room_type"])
      total_price == calculate_total_price(e.hotel_info.room_types[room_type],
                        state.booking_data["check_in_date"],
                        state.booking_data["check_out_date"])
  IN Catch(IF room_type \notin DOMAIN e.hotel_info.room_types
           THEN Raised(state, bookings, <<"booking">>, "")
           ELSE IF total_price <= 0
           THEN Ret(ReplyText.Price, state, bookings, <<"booking">>, "")
           ELSE IF e.fault = "save_booking_raises"
           THEN Raised(state, bookings, <<"booking">>, "raised")
           ELSE IF e.fault = "save_booking_false"
           THEN Ret(ReplyText.SaveBookingFailed, state, bookings, <<"booking">>, "false")
           ELSE Ret(ReplyText.Confirmed, CompletedState(state),
                    save_booking(bookings,
                                 NewBooking(generate_booking_id(bookings), state.user_id,
                                            state.booking_data, room_type, total_price,
                                            e.now)),
                    <<"booking">>, "true"),
           ReplyText.CreateError)

MergeBookingInfo_Replace(booking_data, booking_info) ==
  With(booking_info,
       LAMBDA info :
         LET keep == {k \in DOMAIN info :
                        IF k \in DateFields \/ k = "num_guests" THEN TRUE
                        ELSE Strip(info[k]) # ""}
         IN [k \in keep |-> info[k]])

\* the loop of _process_booking_details: merge what the extractor found
MergeBookingInfo(booking_data, booking_info) ==
  With(booking_info,
       LAMBDA info :
         LET keep == {k \in DOMAIN info :
                        IF k \in DateFields \/ k = "num_guests" THEN TRUE
                        ELSE Strip(info[k]) # ""}
         IN [k \in DOMAIN booking_data \cup keep |->
               IF k \in keep THEN info[k] ELSE booking_data[k]])

_process_booking_details_NoValidate(state, bookings, e) ==
  Catch(With([state EXCEPT !.booking_data =
                MergeBookingInfo(state.booking_data,
                                 extract_booking_info(state.last_message, e.json))],
             LAMBDA st :
               IF validate_booking_data(st.booking_data) # <<>>
               THEN Ret(ReplyText.Missing, st, bookings, <<"booking">>, "")
               ELSE _create_booking(st, bookings, e)),
        ReplyText.DetailsError)

\* HotelAgent._process_booking_details
_process_booking_details(state, bookings, e) ==
  Catch(With([state EXCEPT !.booking_data =
                MergeBookingInfo(state.booking_data,
                                 extract_booking_info(state.last_message, e.json))],
             LAMBDA st :
               IF _validate_booking_input(st.booking_data, e.hotel_info, e.now) # ""
               THEN Ret(_validate_booking_input(st.booking_data, e.hotel_info, e.now),
                        st, bookings, <<"booking">>, "")
               ELSE IF validate_booking_data(st.booking_data) # <<>>
               THEN Ret(ReplyText.Missing, st, bookings, <<"booking">>, "")
               ELSE _create_booking(st, bookings, e)),
        ReplyText.DetailsError)

_handle_booking_NoStart(state, bookings, e) ==
  Catch(_process_booking_details(state, bookings, e), ReplyText.BookingError)

\* HotelAgent._handle_booking
_handle_booking(state, bookings, e) ==
  Catch(IF state.current_step \in {"greeting", "inquiry"}
        THEN _start_booking_flow(state, bookings, e)
        ELSE _process_booking_details(state, bookings, e),
        ReplyText.BookingError)

RescheduledBooking_OldPrice(booking, check_in, check_out, hotel_info, now) ==
  [booking EXCEPT
     !.check_in_date = check_in, !.check_out_date = check_out, !.updated_at = now]

RescheduledBooking_Reconfirmed(booking, check_in, check_out, hotel_info, now) ==
  [booking EXCEPT
     !.check_in_date = check_in,
     !.check_out_date = check_out,
     !.updated_at = now,
     !.status = "confirmed",
     !.total_price = calculate_total_price(hotel_info.room_types[booking.room_type],
                                           check_in, check_out)]

\* the booking as _process_reschedule_request writes it back
RescheduledBooking(booking, check_in, check_out, hotel_info, now) ==
  [booking EXCEPT
     !.check_in_date = check_in,
     !.check_out_date = check_out,
     !.updated_at = now,
     !.total_price = calculate_total_price(hotel_info.room_types[booking.room_type],
                                           check_in, check_out)]

\* re.search(r'bk[a-zA-Z0-9]+', message, re.IGNORECASE) on the lower-cased
\* utterance, then .upper(); "" when there is no match
BookingIdToken(message) == Upper(Lower(message.bk))

MayModify_AnyOwner(bookings, booking_id, user_id) == booking_id \in DOMAIN bookings

\* not (not booking or booking.user_id != state.user_id)
MayModify(bookings, booking_id, user_id) ==
  booking_id \in DOMAIN bookings /\ bookings[booking_id].user_id = user_id

\* HotelAgent._process_reschedule_request
_process_reschedule_request(state, bookings, e) ==
  With(extract_booking_info(state.last_message, e.json),
       LAMBDA booking_info :
         LET booking_id == BookingIdToken(state.last_message)
             tr == <<"reschedule">>
         IN IF booking_id = "" THEN Ret(ReplyText.NeedId, state, bookings, tr, "")
            ELSE IF e.fault = "get_booking_raises" THEN Raised(state, bookings, tr, "")
            ELSE IF ~MayModify(bookings, booking_id, state.user_id)
            THEN Ret(ReplyText.NotFound, state, bookings, tr, "")
            ELSE IF ~(Truthy(booking_info, "check_in_date")
                      /\ Truthy(booking_info, "check_out_date"))
            THEN Ret(ReplyText.NeedDates, state, bookings, tr, "")
            ELSE IF ~_validate_dates(booking_info["check_in_date"],
                                     booking_info["check_out_date"], e.now)
            THEN Ret(ReplyText.InvalidDates, state, bookings, tr, "")
            ELSE IF bookings[booking_id].room_type \notin DOMAIN e.hotel_info.room_types
            THEN Raised(state, bookings, tr, "")
            ELSE IF e.fault = "save_booking_raises" THEN Raised(state, bookings, tr, "raised")
            ELSE IF e.fault = "save_booking_false"
            THEN Ret(ReplyText.UpdateFailed, state, bookings, tr, "false")
            ELSE Ret(ReplyText.Rescheduled, update_step(state, "inquiry"),
                     save_booking(bookings,
                                  RescheduledBooking(bookings[booking_id],
                                                     booking_info["check_in_date"],
                                                     booking_info["check_out_date"],
                                                     e.hotel_info, e.now)),
                     tr, "true"))

\* HotelAgent._show_reschedule_options
_show_reschedule_options(active_bookings) ==
  IF Len(active_bookings) = 1 THEN ReplyText.RescheduleOne ELSE ReplyText.RescheduleMany

_handle_reschedule_Restart(state, bookings, e) ==
  Catch(IF ActiveBookings(bookings, state.user_id) = <<>>
        THEN Ret(ReplyText.NoReschedule, state, bookings, <<"reschedule">>, "")
        ELSE Ret(_show_reschedule_options(ActiveBookings(bookings, state.user_id)),
                 update_step(state, "reschedule_requested"), bookings, <<"reschedule">>, ""),
        ReplyText.ListError)

\* HotelAgent._handle_reschedule
_handle_reschedule(state, bookings, e) ==
  Catch(IF state.current_step = "reschedule_requested"
        THEN _process_reschedule_request(state, bookings, e)
        ELSE IF e.fault = "list_raises" THEN Raised(state, bookings, <<"reschedule">>, "")
        ELSE IF ActiveBookings(bookings, state.user_id) = <<>>
        THEN Ret(ReplyText.NoReschedule, state, bookings, <<"reschedule">>, "")
        ELSE Ret(_show_reschedule_options(ActiveBookings(bookings, state.user_id)),
                 update_step(state, "reschedule_requested"), bookings, <<"reschedule">>, ""),
        ReplyText.ListError)

CancelledBooking_Refunded(booking, now) ==
  [booking EXCEPT !.status = "cancelled", !.updated_at = now, !.total_price = 0]

\* the booking as _process_cancellation writes it back
CancelledBooking(booking, now) ==
  [booking EXCEPT !.status = "cancelled", !.updated_at = now]

StoreCancelled_Deletes(bookings, booking_id, now) ==
  [id \in DOMAIN bookings \ {booking_id} |-> bookings[id]]

\* the store after _process_cancellation saved the booking it cancelled
StoreCancelled(bookings, booking_id, now) ==
  save_booking(bookings, CancelledBooking(bookings[booking_id], now))

_process_cancellation_ById(state, bookings, e) ==
  LET active_bookings == ActiveBookings(bookings, state.user_id)
      named == {i \in 1..Len(active_bookings) :
                  active_bookings[i] = BookingIdToken(state.last_message)}
      tr == <<"cancel">>
  IN IF active_bookings = <<>>
     THEN Ret(ReplyText.NothingToCancel, state, bookings, tr, "")
     ELSE IF Len(active_bookings) = 1 \/ named # {}
     THEN Ret(ReplyText.Cancelled, update_step(state, "inquiry"),
              StoreCancelled(bookings,
                             IF named # {} THEN BookingIdToken(state.last_message)
                             ELSE active_bookings[1], e.now),
              tr, "true")
     ELSE Ret(ReplyText.WhichBooking, state, bookings, tr, "")

\* HotelAgent._process_cancellation
_process_cancellation(state, bookings, e) ==
  LET active_bookings == ActiveBookings(bookings, state.user_id)
      tr == <<"cancel">>
  IN IF e.fault = "list_raises" THEN Raised(state, bookings, tr, "")
     ELSE IF active_bookings = <<>>
     THEN Ret(ReplyText.NothingToCancel, state, bookings, tr, "")
     ELSE IF Len(active_bookings) = 1
     THEN IF e.fault = "save_booking_raises" THEN Raised(state, bookings, tr, "raised")
          ELSE IF e.fault = "save_booking_false"
          THEN Ret(ReplyText.CancelFailed, state, bookings, tr, "false")
          ELSE Ret(ReplyText.Cancelled, update_step(state, "inquiry"),
                   StoreCancelled(bookings, active_bookings[1], e.now),
                   tr, "true")
     ELSE Ret(ReplyText.WhichBooking, state, bookings, tr, "")

\* HotelAgent._show_cancellation_options
_show_cancellation_options(active_bookings) ==
  IF Len(active_bookings) = 1 THEN ReplyText.CancelOne ELSE ReplyText.CancelMany

HasConfirmPhrase_CaseSensitive(message) == message.phrase = "confirm cancel"

\* "confirm cancel" in state.last_message.lower()
HasConfirmPhrase(message) == Lower(message.phrase) = "confirm cancel"

_handle_cancel_NoGate(state, bookings, e) ==
  Catch(_process_cancellation(state, bookings, e), ReplyText.ListError)

\* HotelAgent._handle_cancel
_handle_cancel(state, bookings, e) ==
  Catch(IF HasConfirmPhrase(state.last_message)
        THEN _process_cancellation(state, bookings, e)
        ELSE IF e.fault = "list_raises" THEN Raised(state, bookings, <<"cancel">>, "")
        ELSE IF ActiveBookings(bookings, state.user_id) = <<>>
        THEN Ret(ReplyText.NoCancel, state, bookings, <<"cancel">>, "")
        ELSE Ret(_show_cancellation_options(ActiveBookings(bookings, state.user_id)),
                 update_step(state, "cancel_requested"), bookings, <<"cancel">>, ""),
        ReplyText.ListError)

\* return self._handle_greeting(state), reached from _handle_inquiry
GreetingFromInquiry(greeted) == [greeted EXCEPT !.trace = <<"inquiry">> \o greeted.trace]

\* HotelAgent._handle_inquiry
_handle_inquiry(state, bookings, e) ==
  LET kws == state.last_message.kws
      tr == <<"inquiry">>
  IN Catch(IF "hi" \in kws THEN GreetingFromInquiry(_handle_greeting(state, bookings, e))
           ELSE IF "amenities" \in kws THEN Ret(ReplyText.Amenities, state, bookings, tr, "")
           ELSE IF "policy" \in kws THEN Ret(ReplyText.Policies, state, bookings, tr, "")
           ELSE IF "room" \in kws
           THEN Ret(IF DOMAIN e.hotel_info.room_types = {}
                    THEN ReplyText.RoomsUnavailable ELSE ReplyText.Rooms, state, bookings, tr, "")
           ELSE IF AnswerLen(e.answer) < MinAnswerLen
           THEN Ret(ReplyText.AnswerWithFooter, state, bookings, tr, "")
           ELSE Ret(ReplyText.Answer, state, bookings, tr, ""),
           ReplyText.Help)

\* handlers.get(intent, self._handle_inquiry)
HandlerFor(intent) ==
  IF intent \in {"greeting", "booking", "reschedule", "cancel", "inquiry"}
  THEN intent ELSE "inquiry"

\* HotelAgent._route_to_handler
_route_to_handler(intent, state, bookings, e) ==
  CASE HandlerFor(intent) = "greeting" -> _handle_greeting(state, bookings, e)
    [] HandlerFor(intent) = "booking" -> _handle_booking(state, bookings, e)
    [] HandlerFor(intent) = "reschedule" -> _handle_reschedule(state, bookings, e)
    [] HandlerFor(intent) = "cancel" -> _handle_cancel(state, bookings, e)
    [] OTHER -> _handle_inquiry(state, bookings, e)

\* ----------------------------------------------------------- Dialogue Manager
\* message.strip()
Stripped(message) == [message EXCEPT !.pad = 0]

IsBadInput_IdOnly(user_id, message) == user_id = ""

\* not user_id or not message
IsBadInput(user_id, message) == user_id = "" \/ RawLen(message) = 0

\* What one call of process_message leaves behind: the reply, the stores, and
\* for inspection the ConversationState the call loaded (before) and the one
\* it worked on (state; loaded FALSE when the call never got one), the
\* classified intent, the handlers entered, the answer of save_booking, the
\* outcome of save_conversation_state and whether the call raised.
Outcome(reply, bookings, states, loaded, before, state, intent, trace, saved, state_saved) ==
  [reply |-> reply, bookings |-> bookings, states |-> states,
   loaded |-> loaded, before |-> before, state |-> state, intent |-> intent,
   trace |-> trace, saved |-> saved, state_saved |-> state_saved, raised |-> FALSE]

CatchTurn_Reraise(out) == out

\* except Exception of process_message
CatchTurn(out) ==
  With(out, LAMBDA v : IF v.raised THEN [v EXCEPT !.reply = ReplyText.TurnError, !.raised = FALSE] ELSE v)

\* what process_message does once the handler returned r: save the
\* ConversationState the handler worked on
AfterHandler(r, states, stored, intent, e) ==
  With(Outcome(r.reply, r.bookings, states, TRUE, stored, r.state,
               intent, r.trace, r.saved, ""),
       LAMBDA handled :
         IF r.raised
         THEN [handled EXCEPT !.reply = "", !.raised = TRUE]
         ELSE IF e.fault = "save_state_raises"
         THEN [handled EXCEPT !.reply = "", !.raised = TRUE, !.state_saved = "raised"]
         ELSE IF e.fault = "save_state_false"
         THEN [handled EXCEPT !.state_saved = "false"]
         ELSE [handled EXCEPT !.states = save_conversation_state(states, r.state),
                              !.state_saved = "true"])

LoadState_AnyUser(states, user_id) ==
  IF DOMAIN states # {} THEN states[CHOOSE u \in DOMAIN states : TRUE]
  ELSE NewConversationState(user_id)

\* get_conversation_state(user_id) or ConversationState(user_id=user_id)
LoadState(states, user_id) ==
  IF user_id \in DOMAIN states THEN states[user_id] ELSE NewConversationState(user_id)

\* the try block of HotelAgent.process_message
ProcessMessageBody(user_id, message, label, bookings, states, e) ==
  LET none == NewConversationState(user_id)
  IN IF IsBadInput(user_id, message)
     THEN Outcome(ReplyText.BadInput, bookings, states, FALSE, none, none, "", <<>>, "", "")
     ELSE IF Stripped(message).len > MaxMessageLen
     THEN Outcome(ReplyText.TooLong, bookings, states, FALSE, none, none, "", <<>>, "", "")
     ELSE IF e.fault = "get_state_raises"
     THEN [Outcome("", bookings, states, FALSE, none, none, "", <<>>, "", "")
             EXCEPT !.raised = TRUE]
     ELSE With(LoadState(states, user_id),
               LAMBDA stored :
                 With(_route_to_handler(extract_intent(label),
                                        [stored EXCEPT !.last_message = Stripped(message)],
                                        bookings, e),
                      LAMBDA r : AfterHandler(r, states, stored, extract_intent(label), e)))

\* HotelAgent.process_message
process_message(user_id, message, label, bookings, states, e) ==
  CatchTurn(ProcessMessageBody(user_id, message, label, bookings, states, e))

\* ------------------------------------------------------ orchestration wrapper
\* HotelGraphBuilder._route_intent
_route_intent(current_intent) ==
  IF current_intent \in {"booking", "reschedule", "inquiry", "cancel", "greeting"}
  THEN current_intent ELSE "inquiry"

\* the conditional edges of _build_graph
NodeFor(route) ==
  CASE route = "booking" -> "handle_booking"
    [] route = "reschedule" -> "handle_reschedule"
    [] route = "inquiry" -> "handle_inquiry"
    [] route = "cancel" -> "handle_inquiry"
    [] route = "greeting" -> "handle_inquiry"
    [] OTHER -> "generate_response"

\* failures of workflow.invoke: none, before the node runs, after it ran
GraphFaults == {"none", "raises_before", "raises_after"}

process_NodeHandles(user_id, message, route_label, gfault, label, bookings, states, e) ==
  IF IsBadInput(user_id, message)
  THEN [out |-> Outcome(ReplyText.BadInput, bookings, states, FALSE,
                        NewConversationState(user_id), NewConversationState(user_id),
                        "", <<>>, "", ""),
        node |-> "", calls |-> 0]
  ELSE [out |-> process_message(user_id, message,
                                IF _route_intent(extract_intent(route_label))
                                     \in {"booking", "reschedule"}
                                THEN _route_intent(extract_intent(route_label))
                                ELSE "inquiry",
                                bookings, states, e),
        node |-> NodeFor(_route_intent(extract_intent(route_label))),
        calls |-> 1]

\* HotelGraphBuilder.process.  route_label is the service's reply to the
\* classification made by _process_message_node, label its reply to the one
\* made inside process_message.  A fallback call of process_message meets the
\* same environment as the call made by the node.
process(user_id, message, route_label, gfault, label, bookings, states, e) ==
  IF IsBadInput(user_id, message)
  THEN [out |-> Outcome(ReplyText.BadInput, bookings, states, FALSE,
                        NewConversationState(user_id), NewConversationState(user_id),
                        "", <<>>, "", ""),
        node |-> "", calls |-> 0]
  ELSE With(process_message(user_id, message, label, bookings, states, e),
            LAMBDA first :
              IF gfault = "raises_before"
              THEN [out |-> first, node |-> "", calls |-> 1]
              ELSE IF gfault = "raises_after"
              THEN [out |-> process_message(user_id, message, label,
                                            first.bookings, first.states, e),
                    node |-> NodeFor(_route_intent(extract_intent(route_label))),
                    calls |-> 2]
              ELSE [out |-> first,
                    node |-> NodeFor(_route_intent(extract_intent(route_label))),
                    calls |-> 1])

\* ---------------------------------------------------------- Instagram client
\* self.max_retries
MaxRetries == 3

\* what requests.post meets: 0 stands for a RequestException without a
\* response (a timeout, a refused connection), any other number for the
\* status code of the response
PostOutcomes == {0, 200, 399, 400, 499, 500, 503}

\* requests.post raises, or response.raise_for_status() does
PostRaises(status) == status = 0 \/ status >= 400

IsClientError_Never(status) == FALSE

\* hasattr(e, 'response') and e.response is not None and
\* 400 <= e.response.status_code < 500
IsClientError(status) == status # 0 /\ 400 <= status /\ status < 500

\* ------------------------------------------------------------ state machine
VARIABLES
  bookings,    \* Persistence Store: booking id -> Booking
  states,      \* Persistence Store: user id -> ConversationState
  hotel_info,  \* the catalog loaded by HotelAgent.__init__
  now,         \* the clock, in ticks
  nturns,      \* turns taken so far
  pc,          \* "idle", or "replied" while the reply of a turn is handed back
  turn,        \* the turn whose reply is being handed back
  probe,       \* a call of _validate_dates on its own: arguments and result
  inflight     \* calls of process_message that run side by side, by worker

vars == <<bookings, states, hotel_info, now, nturns, pc, turn, probe, inflight>>

NoTurn ==
  [via |-> "", user_id |-> "", message |-> MsgEmpty, label |-> "",
   json |-> NoJson, answer |-> "", fault |-> "none",
   route_label |-> "", gfault |-> "none", node |-> "", calls |-> 0,
   reply |-> "", raised |-> FALSE, loaded |-> FALSE,
   before |-> NewConversationState(""), state |-> NewConversationState(""),
   intent |-> "", trace |-> <<>>, saved |-> "", state_saved |-> ""]

\* the threads that may call process_message at the same time
Workers == {"w1", "w2"}

\* a worker that runs no call
NoCall ==
  [pc |-> "free", user_id |-> "", message |-> MsgEmpty, label |-> "",
   before |-> NewConversationState(""), state |-> NewConversationState(""),
   reply |-> "", trace |-> <<>>, saved |-> ""]

NoProbe == [check_in |-> BadDate, check_out |-> BadDate, called |-> FALSE, result |-> FALSE]

Init ==
  /\ bookings = EmptyDict
  /\ states = EmptyDict
  /\ hotel_info \in Catalogs
  /\ now = 0
  /\ nturns = 0
  /\ pc = "idle"
  /\ turn = NoTurn
  /\ probe = NoProbe
  /\ inflight = [w \in Workers |-> NoCall]

\* What a turn reads of its environment: a reply of the service or an outcome
\* of the store that the turn never asks for is not told apart.
InputOk(user_id, message) ==
  ~IsBadInput(user_id, message) /\ message.len <= MaxMessageLen

StepOf(user_id) ==
  IF user_id \in DOMAIN states THEN states[user_id].current_step ELSE "greeting"

AsksExtractor(user_id, message, label) ==
  /\ InputOk(user_id, message)
  /\ \/ extract_intent(label) = "booking" /\ StepOf(user_id) \notin {"greeting", "inquiry"}
     \/ extract_intent(label) = "reschedule" /\ StepOf(user_id) = "reschedule_requested"

AsksAnswer(user_id, message, label) ==
  /\ InputOk(user_id, message)
  /\ extract_intent(label) = "inquiry"
  /\ message.kws = {}

LabelsFor(user_id, message, labels) ==
  IF InputOk(user_id, message) THEN labels ELSE {""}

JsonFor(user_id, message, label, jsons) ==
  IF AsksExtractor(user_id, message, label) THEN jsons ELSE {NoJson}

AnswersFor(user_id, message, label, answers) ==
  IF AsksAnswer(user_id, message, label) THEN answers ELSE {""}

FaultsFor(user_id, message, label, faults) ==
  IF ~InputOk(user_id, message) THEN {"none"}
  ELSE {f \in faults :
          \/ f \in {"none", "get_state_raises", "save_state_false", "save_state_raises"}
          \/ /\ extract_intent(label) \in {"reschedule", "cancel"}
             /\ f \in {"list_raises", "get_booking_raises", "save_booking_false",
                       "save_booking_raises"}
          \/ /\ AsksExtractor(user_id, message, label)
             /\ f \in {"save_booking_false", "save_booking_raises"}}

Env(fault, json, answer) ==
  [now |-> now, hotel_info |-> hotel_info, fault |-> fault, json |-> json, answer |-> answer]

Record(via, user_id, message, label, e, route_label, gfault, node, calls, out) ==
  [via |-> via, user_id |-> user_id, message |-> message, label |-> label,
   json |-> e.json, answer |-> e.answer, fault |-> e.fault,
   route_label |-> route_label, gfault |-> gfault, node |-> node, calls |-> calls,
   reply |-> out.reply, raised |-> out.raised, loaded |-> out.loaded,
   before |-> out.before, state |-> out.state,
   intent |-> out.intent, trace |-> out.trace, saved |-> out.saved,
   state_saved |-> out.state_saved]

\* the stores after the call, and the turn ready to be handed back
Commit(out, rec) ==
  /\ Cardinality(DOMAIN out.bookings) <= MaxBookings
  /\ bookings' = out.bookings
  /\ states' = out.states
  /\ turn' = rec
  /\ pc' = "replied"
  /\ nturns' = nturns + 1
  /\ UNCHANGED <<hotel_info, now, probe, inflight>>

\* a caller invokes HotelAgent.process_message
TurnOver(users, messages, labels, jsons, answers, faults, limit) ==
  /\ pc = "idle"
  /\ nturns < limit
  /\ \E user_id \in users, message \in messages :
       \E label \in LabelsFor(user_id, message, labels) :
         \E json \in JsonFor(user_id, message, label, jsons),
            answer \in AnswersFor(user_id, message, label, answers),
            fault \in FaultsFor(user_id, message, label, faults) :
           \E out \in {process_message(user_id, message, label, bookings, states,
                                        Env(fault, json, answer))} :
             Commit(out, Record("direct", user_id, message, label,
                                Env(fault, json, answer), "", "none", "", 1, out))

\* a front end invokes HotelGraphBuilder.process
GraphTurnOver(users, messages, labels, jsons, answers, route_labels, gfaults, limit) ==
  /\ pc = "idle"
  /\ nturns < limit
  /\ \E user_id \in users, message \in messages :
       \E label \in LabelsFor(user_id, message, labels) :
         \E json \in JsonFor(user_id, message, label, jsons),
            answer \in AnswersFor(user_id, message, label, answers),
            route_label \in (IF IsBadInput(user_id, message) THEN {""} ELSE route_labels),
            gfault \in (IF IsBadInput(user_id, message) THEN {"none"} ELSE gfaults) :
           \E p \in {process(user_id, message, route_label, gfault, label,
                              bookings, states, Env("none", json, answer))} :
             Commit(p.out, Record("graph", user_id, message, label,
                                  Env("none", json, answer),
                                  route_label, gfault, p.node, p.calls, p.out))

\* the reply is handed back to the caller
Reply ==
  /\ pc = "replied"
  /\ pc' = "idle"
  /\ turn' = NoTurn
  /\ UNCHANGED <<bookings, states, hotel_info, now, nturns, probe, inflight>>

\* time passes
Tick ==
  /\ pc = "idle"
  /\ now < MaxNow
  /\ now' = now + 1
  /\ UNCHANGED <<bookings, states, hotel_info, nturns, pc, turn, probe, inflight>>

\* ---- the dialogue of one guest: every utterance under every intent
DirectTurn ==
  TurnOver(Callers, Messages, ValidIntents, JsonReplies, Answers, {"none"}, MaxTurns)

Next == DirectTurn \/ Reply \/ Tick

Spec == Init /\ [][Next]_vars

\* ---- two guests who book, reschedule and cancel
GuestMessages == {MsgDetails, MsgConfirm, MsgMove("bk1"), MsgMove("BK2")}

ChangeIntents == {"booking", "reschedule", "cancel"}

GuestTurn ==
  TurnOver(Users, GuestMessages, ChangeIntents, {NoJson}, Answers, {"none"}, MaxGuestTurns)

NextGuests == GuestTurn \/ Reply \/ Tick

SpecGuests == Init /\ [][NextGuests]_vars

\* ---- one guest, a store whose calls fail and a service whose replies are
\* ---- no labels
FaultMessages == Messages \cup MoreMessages

FaultJsonReplies == JsonReplies \cup MoreJsonReplies

FaultyTurn ==
  TurnOver({"u1"}, FaultMessages, Labels, FaultJsonReplies, Answers, Faults, MaxFaultTurns)

NextFaults == FaultyTurn \/ Reply

SpecFaults == Init /\ [][NextFaults]_vars

\* ---- one guest, through the orchestration graph and past it
RouteLabels == {"booking", "reschedule", "cancel", "", QueryError}

GraphTurn ==
  GraphTurnOver(Callers, Messages, Labels, JsonReplies, Answers, RouteLabels, GraphFaults,
                MaxGraphTurns)

PlainTurn ==
  TurnOver(Callers, Messages, Labels, JsonReplies, Answers, {"none"}, MaxGraphTurns)

NextGraph == GraphTurn \/ PlainTurn \/ Reply

SpecGraph == Init /\ [][NextGraph]_vars

\* ---- one guest who gives the booking details piece by piece, and a service
\* ---- whose JSON holds more, or less, than was asked for
SlotMessages == {MsgHello, MsgRoom, MsgContact, MsgNewDates, MsgDetails}

SlotJsonReplies == {NoJson, JsonExtra, JsonAllNull}

SlotTurn ==
  TurnOver({"u1"}, SlotMessages, ValidIntents, SlotJsonReplies,
           {"Yes."}, {"none"}, MaxSlotTurns)

NextSlots == SlotTurn \/ Reply

SpecSlots == Init /\ [][NextSlots]_vars

\* ---- one guest who books for parties of every size
PartyMessages == {MsgDetails, MsgNobody, MsgCrowd, MsgConfirm, MsgMove("bk1")}

PartyJsonReplies == {NoJson, JsonGuests(0), JsonGuests(0 - 1)}

PartyTurn ==
  TurnOver({"u1"}, PartyMessages, ValidIntents, PartyJsonReplies,
           {"Yes."}, {"none"}, MaxPartyTurns)

NextParty == PartyTurn \/ Reply

SpecParty == Init /\ [][NextParty]_vars

\* ---- two guests who change their bookings: the booking id with both new
\* ---- dates, with bad dates, with one date, with none, and the
\* ---- confirmation phrase with a booking id
ChangeMessages ==
  {MsgDetails, MsgMove("bk1"), MsgMoveSameDay("bk1"), MsgMoveOne("bk1"), MsgId("bk1"),
   MsgNewDates, MsgConfirmId("bk1")}

ChangeJsonReplies == {NoJson, JsonExtra}

ChangeTurn ==
  TurnOver(Users, ChangeMessages, ChangeIntents, ChangeJsonReplies,
           {"Yes."}, {"none"}, MaxChangeTurns)

NextChanges == ChangeTurn \/ Reply

SpecChanges == Init /\ [][NextChanges]_vars

\* ---- one guest who books, cancels, books again and moves the cancelled
\* ---- booking
StatusMessages == {MsgDetails, MsgMove("bk1"), MsgConfirm}

StatusTurn ==
  TurnOver({"u1"}, StatusMessages, ValidIntents, {NoJson},
           {"Yes."}, {"none"}, MaxStatusTurns)

NextStatus == StatusTurn \/ Reply \/ Tick

SpecStatus == Init /\ [][NextStatus]_vars

\* ---- the rule-based extractor on utterances that hold dates of every
\* ---- format in every order, with and without the check-in and check-out
\* ---- keywords
DateTokens ==
  {Tok(fmt, day) : fmt \in {"iso", "mdy", "dmy"}, day \in Days}
    \cup {[Tok("dmy", day) EXCEPT !.known = FALSE] : day \in Days}

DateKeywords == {"", "check in", "check out", "both"}

RuleMessages ==
  {[MsgEmpty EXCEPT !.len = 10 * (Len(dates) + 1), !.dates = dates, !.datekw = datekw] :
     dates \in UNION {[1..n -> DateTokens] : n \in 0..MaxDates}, datekw \in DateKeywords}

InitRules ==
  /\ bookings = EmptyDict
  /\ states = EmptyDict
  /\ hotel_info = FallbackHotelData
  /\ now = 0
  /\ nturns = 0
  /\ pc = "idle"
  /\ turn = NoTurn
  /\ probe \in {[message |-> m, called |-> FALSE, result |-> EmptyDict] : m \in RuleMessages}
  /\ inflight = [w \in Workers |-> NoCall]

\* a call of _extract_booking_info_rules(message)
ExtractRules ==
  /\ ~probe.called
  /\ probe' = [probe EXCEPT !.called = TRUE,
                            !.result = _extract_booking_info_rules(probe.message)]
  /\ UNCHANGED <<bookings, states, hotel_info, now, nturns, pc, turn, inflight>>

NextRules == ExtractRules

SpecRules == InitRules /\ [][NextRules]_vars

\* ---- a call of InstagramClient.send_message, attempt by attempt
Recipients == {"", "17841400000000000"}

Texts == {"", "Booking Confirmed!"}

InitSend ==
  /\ bookings = EmptyDict
  /\ states = EmptyDict
  /\ hotel_info = FallbackHotelData
  /\ now = 0
  /\ nturns = 0
  /\ pc = "idle"
  /\ turn = NoTurn
  /\ probe \in {[recipient_id |-> r, message_text |-> t, pc |-> "called", attempt |-> 0,
                  posts |-> <<>>, returned |-> "none"] : r \in Recipients, t \in Texts}
  /\ inflight = [w \in Workers |-> NoCall]

\* lines 35-56: the check of the arguments and the payload
SendCheck ==
  /\ probe.pc = "called"
  /\ probe' = IF probe.recipient_id = "" \/ probe.message_text = ""
              THEN [probe EXCEPT !.pc = "done", !.returned = "False"]
              ELSE [probe EXCEPT !.pc = "loop"]
  /\ UNCHANGED <<bookings, states, hotel_info, now, nturns, pc, turn, inflight>>

\* one pass of for attempt in range(self.max_retries)
SendAttempt ==
  /\ probe.pc = "loop"
  /\ probe.attempt < MaxRetries
  /\ \E status \in PostOutcomes :
       probe' =
         IF ~PostRaises(status)
         THEN [probe EXCEPT !.posts = Append(@, status), !.pc = "done", !.returned = "True"]
         ELSE IF IsClientError(status)
         THEN [probe EXCEPT !.posts = Append(@, status), !.pc = "after_loop"]
         ELSE [probe EXCEPT !.posts = Append(@, status), !.attempt = @ + 1,
                            !.pc = IF probe.attempt + 1 < MaxRetries
                                   THEN "loop" ELSE "after_loop"]
  /\ UNCHANGED <<bookings, states, hotel_info, now, nturns, pc, turn, inflight>>

\* line 91
SendGivesUp ==
  /\ probe.pc = "after_loop"
  /\ probe' = [probe EXCEPT !.pc = "done", !.returned = "False"]
  /\ UNCHANGED <<bookings, states, hotel_info, now, nturns, pc, turn, inflight>>

NextSend == SendCheck \/ SendAttempt \/ SendGivesUp

SpecSend == InitSend /\ [][NextSend]_vars

\* the call runs on: nothing in send_message waits
FairSpecSend == SpecSend /\ WF_vars(NextSend)

\* ---- one guest who books and cancels through the orchestration graph,
\* ---- whatever the router and the classifier make of each utterance
PathMessages == {MsgHello, MsgDetails, MsgConfirm}

PathTurn ==
  GraphTurnOver({"u1"}, PathMessages, ValidIntents, {NoJson}, {"Yes."}, RouteLabels,
                GraphFaults, MaxPathTurns)

NextPaths == PathTurn \/ Reply

SpecPaths == Init /\ [][NextPaths]_vars

\* ---- the Slot Extractor on utterances that name rooms, under every
\* ---- catalog and every reply of the service about the room
RoomWords == {"Standard", "Deluxe", "suite", "penthouse"}

RoomMessages == {[MsgEmpty EXCEPT !.len = 20, !.rooms = rooms] : rooms \in SUBSET RoomWords}

\* an object that holds a room type and nothing else
JsonRoom(v) == Json([k \in FieldSet |-> IF k = "room_type" THEN v ELSE JNull])

RoomJsonReplies ==
  {NoJson, JsonRoom(JStr(" Suite ")), JsonRoom(JStr("Standard")), JsonRoom(JStr("penthouse")),
   JsonRoom(JNum(5))}

InitRooms ==
  /\ bookings = EmptyDict
  /\ states = EmptyDict
  /\ hotel_info \in Catalogs
  /\ now = 0
  /\ nturns = 0
  /\ pc = "idle"
  /\ turn = NoTurn
  /\ probe \in {[message |-> m, json |-> j, called |-> FALSE, result |-> EmptyDict] :
                  m \in RoomMessages, j \in RoomJsonReplies}
  /\ inflight = [w \in Workers |-> NoCall]

\* a call of extract_booking_info(message)
ExtractRoom ==
  /\ ~probe.called
  /\ probe' = [probe EXCEPT !.called = TRUE,
                            !.result = extract_booking_info(probe.message, probe.json)]
  /\ UNCHANGED <<bookings, states, hotel_info, now, nturns, pc, turn, inflight>>

NextRooms == ExtractRoom

SpecRooms == InitRooms /\ [][NextRooms]_vars

\* ---- HotelGraphBuilder.process step by step: the call, workflow.invoke,
\* ---- and the direct call of process_message when invoke raised
AfterInvoke_NoFallback(gfault) == IF gfault = "none" THEN "replied" ELSE "failed"

\* where process goes on after workflow.invoke: return result["messages"][-1],
\* or the except clause
AfterInvoke(gfault) == IF gfault = "none" THEN "replied" ELSE "fallback"

\* the call of process_message that process has in hand
PendingCall(bs, sts) ==
  process_message(turn.user_id, turn.message, turn.label, bs, sts,
                  Env("none", turn.json, turn.answer))

\* the stores after a call of process_message, and what the call returned
Finish(out, node, ncalls, to) ==
  /\ bookings' = out.bookings
  /\ states' = out.states
  /\ turn' = Record("graph", turn.user_id, turn.message, turn.label,
                    Env("none", turn.json, turn.answer),
                    turn.route_label, turn.gfault, node, ncalls, out)
  /\ pc' = to
  /\ UNCHANGED <<hotel_info, now, probe, inflight>>

\* the utterances and the replies of the classifier met step by step
StepMessages == {MsgEmpty, MsgLong, MsgHello, MsgDetails, MsgConfirm}

StepLabels == {"booking", "cancel", ""}

\* a front end calls process(user_id, message)
GraphReceive ==
  /\ pc = "idle"
  /\ nturns < MaxStepTurns
  /\ \E user_id \in Callers, message \in StepMessages :
       \E label \in LabelsFor(user_id, message, StepLabels) :
         \E json \in JsonFor(user_id, message, label, JsonReplies),
            answer \in AnswersFor(user_id, message, label, {"Yes."}),
            route_label \in (IF IsBadInput(user_id, message) THEN {""} ELSE StepLabels),
            gfault \in (IF IsBadInput(user_id, message) THEN {"none"} ELSE GraphFaults) :
           \E p \in {process(user_id, message, route_label, gfault, label,
                              bookings, states, Env("none", json, answer))} :
             /\ Cardinality(DOMAIN p.out.bookings) <= MaxBookings
             /\ turn' = Record("graph", user_id, message, label, Env("none", json, answer),
                               route_label, gfault, "", 0,
                               IF IsBadInput(user_id, message) THEN p.out
                               ELSE [p.out EXCEPT !.reply = ""])
             /\ pc' = IF IsBadInput(user_id, message) THEN "replied" ELSE "invoked"
             /\ nturns' = nturns + 1
             /\ UNCHANGED <<bookings, states, hotel_info, now, probe, inflight>>

\* workflow.invoke: the entry node classifies, the router picks a node, the
\* node calls process_message; invoke may raise before or after the node ran
GraphInvoke ==
  /\ pc = "invoked"
  /\ IF turn.gfault = "raises_before"
     THEN /\ pc' = AfterInvoke(turn.gfault)
          /\ UNCHANGED <<bookings, states, turn, hotel_info, now, probe, inflight>>
     ELSE Finish([PendingCall(bookings, states) EXCEPT
                    !.reply = IF turn.gfault = "none" THEN @ ELSE ""],
                 NodeFor(_route_intent(extract_intent(turn.route_label))), 1,
                 AfterInvoke(turn.gfault))
  /\ UNCHANGED nturns

\* except Exception: return self.agent.process_message(user_id, message)
GraphFallback ==
  /\ pc = "fallback"
  /\ Finish(PendingCall(bookings, states), turn.node, turn.calls + 1, "replied")
  /\ UNCHANGED nturns

NextSteps == GraphReceive \/ GraphInvoke \/ GraphFallback \/ Reply

\* process runs to its return: no step of it waits for anything
SpecGraphSteps ==
  /\ Init
  /\ [][NextSteps]_vars
  /\ WF_vars(GraphInvoke)
  /\ WF_vars(GraphFallback)

\* ---- calls of process_message that run side by side, for one guest or for
\* ---- two: a call loads the ConversationState, runs its handler and saves
\* ---- the state, and the steps of different calls interleave
RaceMessages == {MsgRoom, MsgContact, MsgDetails, MsgMove("bk1")}

\* the booking a guest holds after "I want to book a room" and MsgDetails
BookedBy(booking_id, user_id) ==
  NewBooking(booking_id, user_id, _extract_booking_info_rules(MsgDetails), "deluxe",
             calculate_total_price(FallbackHotelData.room_types["deluxe"], 1, 2), 0)

TwoBookings ==
  save_booking(save_booking(EmptyDict, BookedBy("BK1", "u1")), BookedBy("BK2", "u2"))

\* the calls start in the middle of the dialogues: both guests were asked
\* for their details, or both hold a booking and either was asked for
\* details again or for the new dates of a reschedule
RaceStores == {EmptyDict, TwoBookings}

RaceSteps == {"get_booking_details", "reschedule_requested"}

RaceIntents == {"booking", "reschedule"}

InitRace ==
  /\ bookings \in RaceStores
  /\ states \in {[u \in Users |-> update_step(NewConversationState(u), steps[u])] :
                   steps \in [Users -> IF bookings = EmptyDict
                                       THEN {"get_booking_details"}
                                       ELSE RaceSteps]}
  /\ hotel_info = FallbackHotelData
  /\ now = 0
  /\ nturns = 0
  /\ pc = "idle"
  /\ turn = NoTurn
  /\ probe = NoProbe
  /\ inflight = [w \in Workers |-> NoCall]

\* lines 54-62 of process_message: the checks, get_conversation_state and
\* state.last_message = message
Load(w) ==
  /\ inflight[w].pc \in {"free", "returned"}
  /\ nturns < MaxRaceCalls
  /\ \E user_id \in Users, message \in RaceMessages, label \in RaceIntents :
       /\ InputOk(user_id, message)
       /\ inflight' = [inflight EXCEPT ![w] =
            [pc |-> "loaded", user_id |-> user_id, message |-> message, label |-> label,
             before |-> LoadState(states, user_id),
             state |-> [LoadState(states, user_id) EXCEPT !.last_message = Stripped(message)],
             reply |-> "", trace |-> <<>>, saved |-> ""]]
  /\ nturns' = nturns + 1
  /\ UNCHANGED <<bookings, states, hotel_info, now, pc, turn, probe>>

\* lines 64-67: extract_intent and the handler, which reads and writes the
\* booking store
Handle(w) ==
  /\ inflight[w].pc = "loaded"
  /\ \E r \in {_route_to_handler(extract_intent(inflight[w].label), inflight[w].state,
                                  bookings, Env("none", NoJson, "Yes."))} :
       /\ Cardinality(DOMAIN r.bookings) <= MaxBookings
       /\ bookings' = r.bookings
       /\ inflight' = [inflight EXCEPT ![w].pc = "handled", ![w].state = r.state,
                                       ![w].reply = r.reply, ![w].trace = r.trace,
                                       ![w].saved = r.saved]
  /\ UNCHANGED <<states, hotel_info, now, nturns, pc, turn, probe>>

StateToSave_MergeStored(sts, call) ==
  IF call.user_id \in DOMAIN sts
  THEN [call.state EXCEPT !.booking_data =
          [k \in DOMAIN sts[call.user_id].booking_data \cup DOMAIN call.state.booking_data |->
             IF k \in DOMAIN call.state.booking_data
             THEN call.state.booking_data[k] ELSE sts[call.user_id].booking_data[k]]]
  ELSE call.state

\* the argument of save_conversation_state: the object the call loaded and
\* its handler worked on
StateToSave(sts, call) == call.state

\* lines 69-70: save_conversation_state and the return
Save(w) ==
  /\ inflight[w].pc = "handled"
  /\ states' = save_conversation_state(states, StateToSave(states, inflight[w]))
  /\ inflight' = [inflight EXCEPT ![w].pc = "returned"]
  /\ UNCHANGED <<bookings, hotel_info, now, nturns, pc, turn, probe>>

NextRace == \E w \in Workers : Load(w) \/ Handle(w) \/ Save(w)

SpecRace == InitRace /\ [][NextRace]_vars

\* ---- two calls for one guest that overlap inside their handlers: each
\* ---- handler reads the booking store, works on what it read, and saves
\* ---- the booking it changed
OverlapMessages == {MsgConfirm, MsgMove("bk1")}

OverlapIntents == {"cancel", "reschedule"}

OverlapSteps == {"reschedule_requested", "cancel_requested"}

IdleCall ==
  [pc |-> "free", user_id |-> "", message |-> MsgEmpty, label |-> "",
   before |-> NewConversationState(""), state |-> NewConversationState(""),
   reply |-> "", trace |-> <<>>, saved |-> "", seen |-> EmptyDict]

\* the guest holds the confirmed booking BK1 and was asked for new dates, or
\* for the confirmation of a cancellation
InitOverlap ==
  /\ bookings = save_booking(EmptyDict, BookedBy("BK1", "u1"))
  /\ states \in {[u \in {"u1"} |-> update_step(NewConversationState(u), step)] :
                   step \in OverlapSteps}
  /\ hotel_info = FallbackHotelData
  /\ now = 0
  /\ nturns = 0
  /\ pc = "idle"
  /\ turn = NoTurn
  /\ probe = NoProbe
  /\ inflight = [w \in Workers |-> IdleCall]

\* lines 54-62 of process_message
Begin(w) ==
  /\ inflight[w].pc \in {"free", "returned"}
  /\ nturns < MaxOverlapCalls
  /\ \E message \in OverlapMessages, label \in OverlapIntents :
       inflight' = [inflight EXCEPT ![w] =
         [pc |-> "loaded", user_id |-> "u1", message |-> message, label |-> label,
          before |-> LoadState(states, "u1"),
          state |-> [LoadState(states, "u1") EXCEPT !.last_message = Stripped(message)],
          reply |-> "", trace |-> <<>>, saved |-> "", seen |-> EmptyDict]]
  /\ nturns' = nturns + 1
  /\ UNCHANGED <<bookings, states, hotel_info, now, pc, turn, probe>>

\* the handler's read of the store: get_user_bookings in _handle_cancel,
\* _process_cancellation and _handle_reschedule, get_booking in
\* _process_reschedule_request
ReadStore(w) ==
  /\ inflight[w].pc = "loaded"
  /\ inflight' = [inflight EXCEPT ![w].pc = "read", ![w].seen = bookings]
  /\ UNCHANGED <<bookings, states, hotel_info, now, nturns, pc, turn, probe>>

\* save_booking(booking) writes the whole booking object under its id
Upsert(store, seen, written) ==
  [id \in DOMAIN store \cup DOMAIN written |->
     IF id \in DOMAIN written /\ (id \notin DOMAIN seen \/ written[id] # seen[id])
     THEN written[id] ELSE store[id]]

\* the rest of the handler: it changes the booking object it read and
\* saves it
WriteStore(w) ==
  /\ inflight[w].pc = "read"
  /\ \E r \in {_route_to_handler(extract_intent(inflight[w].label), inflight[w].state,
                                  inflight[w].seen, Env("none", NoJson, "Yes."))} :
       /\ bookings' = Upsert(bookings, inflight[w].seen, r.bookings)
       /\ inflight' = [inflight EXCEPT ![w].pc = "handled", ![w].state = r.state,
                                       ![w].reply = r.reply, ![w].trace = r.trace,
                                       ![w].saved = r.saved]
  /\ UNCHANGED <<states, hotel_info, now, nturns, pc, turn, probe>>

NextOverlap == \E w \in Workers : Begin(w) \/ ReadStore(w) \/ WriteStore(w) \/ Save(w)

SpecOverlap == InitOverlap /\ [][NextOverlap]_vars

\* ---- _validate_dates on its own, for every clock and every pair of dates
InitDates ==
  /\ bookings = EmptyDict
  /\ states = EmptyDict
  /\ hotel_info = FallbackHotelData
  /\ now \in 0..(Midnight(MaxDay + 1) - 1)
  /\ nturns = 0
  /\ pc = "idle"
  /\ turn = NoTurn
  /\ probe \in [check_in : ProbeDates, check_out : ProbeDates,
                called : {FALSE}, result : {FALSE}]
  /\ inflight = [w \in Workers |-> NoCall]

ValidateDates ==
  /\ ~probe.called
  /\ probe' = [probe EXCEPT !.called = TRUE,
                            !.result = _validate_dates(probe.check_in, probe.check_out, now)]
  /\ UNCHANGED <<bookings, states, hotel_info, now, nturns, pc, turn, inflight>>

SpecDates == InitDates /\ [][ValidateDates]_vars

\* ------------------------------------------------------------------ claims
\* a call of process_message or of process has just returned
TurnTaken == pc = "idle" /\ pc' = "replied"

\* the confirmed bookings of a user
ConfirmedOf(bs, user_id) ==
  {id \in DOMAIN bs : bs[id].user_id = user_id /\ bs[id].status = "confirmed"}

\* all bookings of a user
BookingsOf(bs, user_id) == {id \in DOMAIN bs : bs[id].user_id = user_id}

\* utterances that hold the confirmation phrase, in either letter case
ConfirmPhrases == {"CONFIRM CANCEL", "Confirm Cancel", "confirm cancel"}

\* a reply of the service that is none of the five labels once lower-cased
\* and trimmed
Unrecognized(label) == Strip(Lower(label)) \notin ValidIntents

\* C1: a turn with an empty user id or an empty message is answered with the
\* fixed "I didn't receive your message properly" reply, a turn whose trimmed
\* message is longer than 1000 characters with the "under 1000 characters"
\* notice, whether the call is made directly or through
\* HotelGraphBuilder.process; such a turn creates or changes no
\* ConversationState and no booking.
C1_BadInputRejected ==
  [][TurnTaken =>
       LET t == turn'
           empty == t.user_id = "" \/ t.message.len + t.message.pad = 0
           long == ~empty /\ t.message.len > MaxMessageLen
       IN /\ empty => t.reply = ReplyText.BadInput
          /\ long => t.reply = ReplyText.TooLong
          /\ (empty \/ long) => bookings' = bookings /\ states' = states]_vars

\* an over-long message sent through the graph by a guest who has a
\* ConversationState and a booking
C1_Witness ==
  /\ pc = "replied"
  /\ turn.via = "graph"
  /\ turn.message = MsgLong
  /\ turn.reply = ReplyText.TooLong
  /\ turn.user_id \in DOMAIN states
  /\ BookingsOf(bookings, turn.user_id) # {}

\* C2: the ConversationState created on first contact has current_step
\* greeting; a turn classified as greeting sets current_step to greeting
\* whatever the step was before, in the state the handler worked on and in
\* the stored one, and creates or changes no booking.
C2_GreetingStep ==
  [][TurnTaken =>
       LET t == turn'
       IN /\ (t.loaded /\ t.user_id \notin DOMAIN states)
               => t.before.current_step = "greeting"
          /\ t.intent = "greeting"
               => /\ t.state.current_step = "greeting"
                  /\ t.user_id \in DOMAIN states'
                  /\ states'[t.user_id].current_step = "greeting"
                  /\ bookings' = bookings]_vars

\* a greeting by a guest who has a booking and was asked for new dates
C2_Witness ==
  /\ pc = "replied"
  /\ turn.intent = "greeting"
  /\ turn.before.current_step = "reschedule_requested"
  /\ states[turn.user_id].current_step = "greeting"
  /\ BookingsOf(bookings, turn.user_id) # {}

\* C3: a booking-intent turn that starts in step get_booking_details, holds
\* all seven required fields with valid values once this turn's extracted
\* fields are merged, and whose save_booking answers True stores exactly one
\* new booking, confirmed and owned by the turn's user, changes no other
\* booking, sets current_step to booking_complete and leaves booking_data
\* empty; the save is attempted whenever the fields are complete and valid,
\* the nightly rate is positive and the store does not fail.
C3_CompleteBookingStored ==
  [][TurnTaken =>
       LET t == turn'
           merged == MergeBookingInfo(t.before.booking_data,
                                      extract_booking_info(Stripped(t.message), t.json))
           complete == /\ FieldSet \subseteq DOMAIN merged
                       /\ _validate_booking_input(merged, hotel_info, now) = ""
           new == DOMAIN bookings' \ DOMAIN bookings
           collecting == /\ t.intent = "booking"
                         /\ t.before.current_step = "get_booking_details"
                         /\ complete
       IN /\ (collecting /\ t.saved = "true")
               => /\ Cardinality(new) = 1
                  /\ \A id \in new : /\ bookings'[id].status = "confirmed"
                                     /\ bookings'[id].user_id = t.user_id
                  /\ \A id \in DOMAIN bookings : bookings'[id] = bookings[id]
                  /\ t.state.current_step = "booking_complete"
                  /\ t.state.booking_data = EmptyDict
                  /\ t.state_saved = "true"
                       => /\ states'[t.user_id].current_step = "booking_complete"
                          /\ states'[t.user_id].booking_data = EmptyDict
          /\ (/\ collecting
              /\ t.fault \notin {"save_booking_false", "save_booking_raises"}
              /\ hotel_info.room_types[Lower(merged["room_type"])] > 0)
               => t.saved = "true"]_vars

\* a booking completed by a turn that adds to fields collected before
C3_Witness ==
  /\ pc = "replied"
  /\ turn.intent = "booking"
  /\ turn.before.current_step = "get_booking_details"
  /\ turn.before.booking_data # EmptyDict
  /\ turn.saved = "true"
  /\ turn.reply = ReplyText.Confirmed
  /\ states[turn.user_id].current_step = "booking_complete"

\* C4: every stored booking has a room type of the catalog and
\* total_price = nightly rate of its room type x nights between its dates,
\* and total_price > 0, after bookings, reschedules and cancellations.
C4_PriceIsRateTimesNights ==
  \A id \in DOMAIN bookings :
    /\ bookings[id].room_type \in DOMAIN hotel_info.room_types
    /\ bookings[id].total_price =
         hotel_info.room_types[bookings[id].room_type]
           * (bookings[id].check_out_date - bookings[id].check_in_date)
    /\ bookings[id].total_price > 0

\* a one-night deluxe booking that a reschedule has stretched to three nights
C4_Witness ==
  /\ pc = "replied"
  /\ turn.reply = ReplyText.Rescheduled
  /\ \E id \in DOMAIN bookings :
       /\ id = Upper(Lower(turn.message.bk))
       /\ bookings[id].room_type = "deluxe"
       /\ bookings[id].check_out_date - bookings[id].check_in_date = 3

\* C5: _validate_dates accepts two dates if and only if check-in is the
\* calendar day of the clock or a later day, whatever the time of day, and
\* check-out is after check-in; dates that do not parse are rejected.
C5_DateCheck ==
  probe.called =>
    (probe.result <=>
       /\ probe.check_in # BadDate
       /\ probe.check_out # BadDate
       /\ probe.check_in * TicksPerDay + TicksPerDay > now
       /\ probe.check_out > probe.check_in)

\* check-in today, asked later in the day, check-out the day after
C5_Witness ==
  /\ probe.called
  /\ probe.result
  /\ probe.check_in * TicksPerDay < now
  /\ now < (probe.check_in + 1) * TicksPerDay
  /\ probe.check_out = probe.check_in + 1

\* C6: when the user has exactly one confirmed booking and the store does not
\* fail on the bookings, a cancel-intent turn whose utterance holds "confirm
\* cancel" in any letter case sets that booking's status to cancelled and
\* current_step to inquiry (stored when the state is saved).
C6_ConfirmCancels ==
  [][TurnTaken =>
       LET t == turn'
           mine == ConfirmedOf(bookings, t.user_id)
       IN (/\ t.intent = "cancel"
           /\ t.message.phrase \in ConfirmPhrases
           /\ Cardinality(mine) = 1
           /\ t.fault \notin {"list_raises", "save_booking_false", "save_booking_raises"})
            => /\ \A id \in mine : bookings'[id].status = "cancelled"
               /\ t.state.current_step = "inquiry"
               /\ t.state_saved = "true"
                    => states'[t.user_id].current_step = "inquiry"]_vars

\* "CONFIRM CANCEL" in capitals cancels the only confirmed booking
C6_Witness ==
  /\ pc = "replied"
  /\ turn.intent = "cancel"
  /\ turn.message.phrase = "CONFIRM CANCEL"
  /\ turn.reply = ReplyText.Cancelled
  /\ ConfirmedOf(bookings, turn.user_id) = {}
  /\ states[turn.user_id].current_step = "inquiry"

\* C7: once the user's bookings are all cancelled, a further cancel
\* confirmation is answered with "No active bookings found to cancel",
\* changes no booking and leaves current_step as it was.
C7_SecondConfirmIsNoOp ==
  [][TurnTaken =>
       LET t == turn'
           mine == BookingsOf(bookings, t.user_id)
       IN (/\ t.intent = "cancel"
           /\ t.message.phrase \in ConfirmPhrases
           /\ mine # {}
           /\ \A id \in mine : bookings[id].status = "cancelled")
            => /\ t.reply = ReplyText.NothingToCancel
               /\ bookings' = bookings
               /\ t.state.current_step = t.before.current_step
               /\ states'[t.user_id].current_step = states[t.user_id].current_step]_vars

\* a second confirmation after the cancellation
C7_Witness ==
  /\ pc = "replied"
  /\ turn.intent = "cancel"
  /\ turn.message.phrase \in ConfirmPhrases
  /\ turn.reply = ReplyText.NothingToCancel
  /\ BookingsOf(bookings, turn.user_id) # {}
  /\ \A id \in BookingsOf(bookings, turn.user_id) : bookings[id].status = "cancelled"

\* C8: in step reschedule_requested, a reschedule turn whose booking-id token
\* names no stored booking or a booking of another user is answered with
\* "Booking not found or you don't have permission to modify it", changes no
\* booking and leaves current_step at reschedule_requested, also when the
\* utterance carries two valid new dates.
C8_ForeignBookingRejected ==
  [][TurnTaken =>
       LET t == turn'
           token == Upper(Lower(t.message.bk))
       IN (/\ t.intent = "reschedule"
           /\ t.before.current_step = "reschedule_requested"
           /\ t.message.bk # ""
           /\ (token \notin DOMAIN bookings \/ bookings[token].user_id # t.user_id))
            => /\ t.reply = ReplyText.NotFound
               /\ bookings' = bookings
               /\ t.state.current_step = "reschedule_requested"
               /\ states'[t.user_id].current_step = "reschedule_requested"]_vars

\* the token names the confirmed booking of the other guest, with two valid
\* new dates in the utterance
C8_Witness ==
  /\ pc = "replied"
  /\ turn.intent = "reschedule"
  /\ turn.before.current_step = "reschedule_requested"
  /\ Upper(Lower(turn.message.bk)) \in DOMAIN bookings
  /\ bookings[Upper(Lower(turn.message.bk))].user_id # turn.user_id
  /\ bookings[Upper(Lower(turn.message.bk))].status = "confirmed"
  /\ Len(turn.message.dates) = 2
  /\ turn.reply = ReplyText.NotFound

\* C9: every call of process_message returns a reply string and raises
\* nothing, whatever the service replies, whichever call of the store raises
\* or reports failure and whatever the catalog lacks.
C9_AlwaysReplies ==
  pc = "replied" => (~turn.raised /\ turn.reply # "")

\* the store raised while the state was saved, after the handler had run
C9_Witness ==
  /\ pc = "replied"
  /\ turn.fault = "save_state_raises"
  /\ turn.trace # <<>>
  /\ turn.reply = ReplyText.TurnError

\* what C10 holds of every turn, with the handlers an unrecognized label may
\* lead to
UnknownLabelLeadsTo(traces) ==
  pc = "replied" =>
    /\ (turn.loaded /\ Unrecognized(turn.label))
         => /\ turn.intent = "inquiry"
            /\ turn.trace \in traces
            /\ ~turn.raised
            /\ turn.reply \notin {"", ReplyText.TurnError}
    /\ (turn.via = "graph" /\ turn.node # "" /\ Unrecognized(turn.route_label))
         => turn.node = "handle_inquiry"

C11_GraphTurnEndsWithReply ==
  (pc = "invoked") ~> (/\ pc = "replied"
                       /\ turn.reply # ""
                       /\ ~turn.raised
                       /\ turn.gfault # "none" => turn.calls = (IF turn.node = "" THEN 1 ELSE 2))

\* invoke raised after its node had stored a booking, and the direct call
\* answered
C11_Witness ==
  /\ pc = "replied"
  /\ turn.via = "graph"
  /\ turn.gfault = "raises_after"
  /\ turn.calls = 2
  /\ turn.reply # ""
  /\ bookings # EmptyDict

\* C12: the booking_data of every ConversationState, stored or in the hands
\* of a turn, holds no key outside the seven booking fields, whatever keys
\* the JSON of the service holds.
C12_OnlyBookingFields ==
  /\ \A u \in DOMAIN states : DOMAIN states[u].booking_data \subseteq FieldSet
  /\ DOMAIN turn.state.booking_data \subseteq FieldSet
  /\ DOMAIN turn.before.booking_data \subseteq FieldSet

\* a turn merged the room out of a JSON object that also held other keys
C12_Witness ==
  /\ pc = "replied"
  /\ turn.json = JsonExtra
  /\ turn.trace = <<"booking">>
  /\ "room_type" \in DOMAIN turn.state.booking_data
  /\ turn.state.booking_data["room_type"] = "suite"
  /\ states[turn.user_id].booking_data = turn.state.booking_data

\* C13: no step takes a booking out of the store: every booking id stored
\* stays stored, under the same owner and creation time, through booking,
\* reschedule, cancel, greeting and inquiry turns; a turn that cancels leaves
\* every booking as it was except that the cancelled one has status
\* cancelled (and its update timestamp refreshed).
C13_BookingsNeverRemoved ==
  [][/\ \A id \in DOMAIN bookings :
          /\ id \in DOMAIN bookings'
          /\ bookings'[id].booking_id = id
          /\ bookings'[id].user_id = bookings[id].user_id
          /\ bookings'[id].created_at = bookings[id].created_at
     /\ (TurnTaken /\ turn'.trace = <<"cancel">>)
          => /\ DOMAIN bookings' = DOMAIN bookings
             /\ \A id \in DOMAIN bookings :
                  \/ bookings'[id] = bookings[id]
                  \/ /\ turn'.saved = "true"
                     /\ bookings[id].status = "confirmed"
                     /\ bookings'[id] = [bookings[id] EXCEPT !.status = "cancelled",
                                                            !.updated_at = now]]_vars

\* a booking was cancelled at a later time than it was made and is still in
\* the store
C13_Witness ==
  /\ pc = "replied"
  /\ turn.reply = ReplyText.Cancelled
  /\ \E id \in DOMAIN bookings :
       /\ bookings[id].status = "cancelled"
       /\ bookings[id].updated_at > bookings[id].created_at

\* replies that ask the guest to try again
RetryReplies ==
  {ReplyText.TurnError, ReplyText.BookingError, ReplyText.DetailsError,
   ReplyText.SaveBookingFailed, ReplyText.CreateError, ReplyText.ListError,
   ReplyText.UpdateFailed, ReplyText.CancelFailed}

\* the step a handler sets once its booking write succeeded
StepAfterWrite(trace) ==
  IF trace = <<"booking">> THEN "booking_complete" ELSE "inquiry"

\* C14: the booking write and the ConversationState write of a turn are
\* all-or-nothing: when the turn's booking write (create, reschedule,
\* cancel) is persisted, the ConversationState the turn produced (step
\* change, cleared booking_data) is persisted too; and when the booking
\* write is not persisted, neither is a step change.
C14_AllOrNothing ==
  [][(TurnTaken /\ turn'.saved # "")
       => /\ turn'.saved = "true"
               => /\ turn'.user_id \in DOMAIN states'
                  /\ states'[turn'.user_id].current_step = StepAfterWrite(turn'.trace)
                  /\ states'[turn'.user_id].booking_data = turn'.state.booking_data
          /\ turn'.saved # "true"
               => /\ bookings' = bookings
                  /\ turn'.user_id \in DOMAIN states'
                       => states'[turn'.user_id].current_step = turn'.before.current_step]_vars

\* C15: when save_booking or save_conversation_state reports failure in a
\* turn, by answering False or by raising, the reply of the turn asks the
\* guest to try again; it is no confirmation and no exception leaves the
\* call.
C15_SaveFailureAsksRetry ==
  (pc = "replied" /\ (turn.saved \in {"false", "raised"}
                         \/ turn.state_saved \in {"false", "raised"}))
    => (~turn.raised /\ turn.reply \in RetryReplies)

\* a field of what the extractor returned that is neither absent nor blank
Extracted(info, k) ==
  /\ k \in DOMAIN info
  /\ (k \in {"room_type", "guest_name", "guest_email", "guest_phone"} => Strip(info[k]) # "")

\* the slots as the claims expect them after the extractor returned info
ExpectedSlots(old, info) ==
  [k \in {f \in FieldSet : Extracted(info, f) \/ f \in DOMAIN old} |->
     IF Extracted(info, k) THEN info[k] ELSE old[k]]

\* the date check and the room-type check of the Validator pass on slots
DatesAndRoomPass(slots) ==
  /\ "check_in_date" \in DOMAIN slots /\ "check_out_date" \in DOMAIN slots
       => /\ slots["check_in_date"] # BadDate /\ slots["check_out_date"] # BadDate
          /\ slots["check_out_date"] > slots["check_in_date"]
          /\ slots["check_in_date"] >= now \div TicksPerDay
  /\ "room_type" \in DOMAIN slots => slots["room_type"] \in DOMAIN hotel_info.room_types

\* the slice of the stores a call for user_id can tell apart: its own
\* ConversationState, its own bookings, and which booking ids are taken
OwnStates(sts, user_id) == [u \in DOMAIN sts \cap {user_id} |-> sts[u]]

OwnBookings(bs, user_id) ==
  [id \in DOMAIN bs |->
     IF bs[id].user_id = user_id THEN bs[id]
     ELSE [bs[id] EXCEPT !.user_id = "", !.status = "cancelled", !.guest_name = "",
                         !.guest_email = "", !.guest_phone = ""]]

\* the steps of one call give the same results when the other guests' data
\* are hidden from it
StepAsAlone(w) ==
  LET c == inflight[w]
      d == inflight'[w]
  IN /\ c.pc \in {"free", "returned"}
          => /\ d.before = IF d.user_id \in DOMAIN states THEN states[d.user_id]
                           ELSE NewConversationState(d.user_id)
             /\ d.state = [d.before EXCEPT !.last_message = Stripped(d.message)]
     /\ c.pc = "loaded"
          => \E r \in {_route_to_handler(extract_intent(c.label), c.state,
                                         OwnBookings(bookings, c.user_id),
                                         Env("none", NoJson, "Yes."))} :
               /\ d.reply = r.reply
               /\ d.state = r.state
               /\ DOMAIN bookings' = DOMAIN r.bookings
               /\ \A id \in DOMAIN bookings' :
                    bookings'[id].user_id = c.user_id => bookings'[id] = r.bookings[id]
     /\ c.pc = "handled"
          => states'[c.user_id]
               = save_conversation_state(OwnStates(states, c.user_id), c.state)[c.user_id]

\* C16: calls for different user ids interleave step by step, and every
\* step of a call for one guest (a) leaves every other guest's
\* ConversationState and bookings exactly as they were, and writes bookings
\* for its own guest only, and (b) ends as it ends when the other guests'
\* data are hidden from it; so each guest's final state and bookings are
\* those of that guest's calls run alone.
C16_GuestsDoNotInterfere ==
  [][\A w \in Workers :
       inflight'[w] # inflight[w]
         => /\ \A v \in Users \ {inflight'[w].user_id} :
                 /\ v \in DOMAIN states <=> v \in DOMAIN states'
                 /\ v \in DOMAIN states => states'[v] = states[v]
            /\ \A id \in DOMAIN bookings :
                 /\ id \in DOMAIN bookings'
                 /\ bookings[id].user_id # inflight'[w].user_id
                      => bookings'[id] = bookings[id]
            /\ \A id \in DOMAIN bookings' \ DOMAIN bookings :
                 bookings'[id].user_id = inflight'[w].user_id
            /\ StepAsAlone(w)]_vars

\* two calls in flight at once: u1 moved its booking BK1 while u2, asking for
\* the same booking id, was turned away, and BK2 of u2 is untouched
C16_Witness ==
  \E w1, w2 \in Workers :
    /\ inflight[w1].user_id = "u1" /\ inflight[w2].user_id = "u2"
    /\ inflight[w1].pc = "handled" /\ inflight[w2].pc = "handled"
    /\ inflight[w1].message = MsgMove("bk1") /\ inflight[w2].message = MsgMove("bk1")
    /\ inflight[w1].reply = ReplyText.Rescheduled
    /\ inflight[w2].reply = ReplyText.NotFound
    /\ bookings["BK1"].user_id = "u1"
    /\ bookings["BK1"].check_in_date # TwoBookings["BK1"].check_in_date
    /\ bookings["BK2"] = TwoBookings["BK2"]

\* C17: when two calls for the same user id interleave, a save stores the
\* saving call's ConversationState as a whole: booking_data and current_step
\* are exactly those the call worked out from the state it loaded and the
\* fields it extracted itself, so after both saves the store holds the
\* last saver's write, with no field of the earlier saver mixed in or
\* restored.
C17_LastSaveWinsWhole ==
  [][\A w \in Workers :
       (inflight[w].pc = "handled" /\ inflight'[w].pc = "returned")
         => LET c == inflight[w]
            IN /\ states'[c.user_id].booking_data = c.state.booking_data
               /\ states'[c.user_id].current_step = c.state.current_step
               /\ (/\ c.trace = <<"booking">>
                   /\ c.before.current_step = "get_booking_details"
                   /\ c.saved # "true")
                    => c.state.booking_data
                         = ExpectedSlots(c.before.booking_data,
                                         extract_booking_info(Stripped(c.message), NoJson))]_vars

\* both calls loaded the empty booking_data before either saved; the earlier
\* saver stored the room type, the later one the contact details, and the
\* store holds the later write only
C17_Witness ==
  \E w1, w2 \in Workers :
    /\ inflight[w1].pc = "returned" /\ inflight[w2].pc = "returned"
    /\ inflight[w1].user_id = "u1" /\ inflight[w2].user_id = "u1"
    /\ inflight[w1].before.booking_data = EmptyDict
    /\ inflight[w2].before.booking_data = EmptyDict
    /\ inflight[w1].message = MsgRoom /\ inflight[w2].message = MsgContact
    /\ "room_type" \in DOMAIN inflight[w1].state.booking_data
    /\ states["u1"].booking_data = inflight[w2].state.booking_data
    /\ \A k \in FieldSet : k \in DOMAIN states["u1"].booking_data
                           <=> k \in {"guest_name", "guest_email", "guest_phone"}

\* C18: a turn classified as booking that starts in step greeting or inquiry
\* only opens the booking flow: the step becomes get_booking_details, in
\* the state the turn works on and in the store, booking_data stays as it
\* was, no booking is written, and the Slot Extractor is not consulted:
\* whatever JSON the service would return, the turn ends the same.
C18_BookingIntentOpensFlow ==
  [][(/\ TurnTaken
      /\ turn'.loaded
      /\ turn'.intent = "booking"
      /\ turn'.before.current_step \in {"greeting", "inquiry"})
       => /\ turn'.trace = <<"booking">>
          /\ turn'.state.current_step = "get_booking_details"
          /\ turn'.state.booking_data = turn'.before.booking_data
          /\ states'[turn'.user_id].current_step = "get_booking_details"
          /\ states'[turn'.user_id].booking_data = turn'.before.booking_data
          /\ bookings' = bookings
          /\ turn'.saved = ""
          /\ turn'.reply \in {ReplyText.Checklist, ReplyText.NoRooms}
          /\ \A json \in AnyJsonReply :
               \E out \in {process_message(turn'.user_id, turn'.message, turn'.label,
                                            bookings, states,
                                            Env(turn'.fault, json, turn'.answer))} :
                 /\ out.reply = turn'.reply
                 /\ out.states = states'
                 /\ out.bookings = bookings']_vars

\* the flow was opened from step inquiry by an utterance that holds all seven
\* details, with dates already collected
C18_Witness ==
  /\ pc = "replied"
  /\ turn.intent = "booking"
  /\ turn.message = MsgDetails
  /\ turn.before.current_step = "inquiry"
  /\ turn.before.booking_data # EmptyDict
  /\ turn.state.current_step = "get_booking_details"

\* the slots a turn ended with: those of the booking it created, or else
\* those of the ConversationState it stored
SlotsAfter(t, bs, sts) ==
  IF t.saved = "true"
  THEN LET b == CHOOSE b \in {bs[id] : id \in DOMAIN bs} :
                  b.created_at = now /\ b.booking_id \notin DOMAIN bookings
       IN [k \in FieldSet |-> b[k]]
  ELSE sts[t.user_id].booking_data

\* a turn of the booking flow past its opening merged what the extractor
\* returned: field by field the new value where one was extracted, the
\* value collected before otherwise
MergedThisTurn ==
  /\ turn'.user_id \in DOMAIN states'
  /\ SlotsAfter(turn', bookings', states')
       = ExpectedSlots(states[turn'.user_id].booking_data,
                       extract_booking_info(Stripped(turn'.message), turn'.json))
  /\ turn'.saved = "true" => states'[turn'.user_id].booking_data = EmptyDict

\* C19: while current_step is get_booking_details every accepted turn,
\* whatever intent is classified for it, runs the Slot Extractor on the
\* utterance, merges the non-empty fields into booking_data and runs the
\* Validator.
C19_DetailsStepAlwaysExtracts ==
  [][(/\ TurnTaken
      /\ turn'.loaded
      /\ turn'.before.current_step = "get_booking_details")
       => /\ turn'.trace = <<"booking">>
          /\ MergedThisTurn]_vars

\* the Validator ran on the merged slots: its rejection is the reply and no
\* booking is written; without a rejection the reply lists what is missing,
\* or the booking is attempted
ValidatedThisTurn ==
  \E slots \in {ExpectedSlots(states[turn'.user_id].booking_data,
                              extract_booking_info(Stripped(turn'.message), turn'.json))} :
    IF (/\ "check_in_date" \in DOMAIN slots /\ "check_out_date" \in DOMAIN slots
        /\ ~(slots["check_out_date"] > slots["check_in_date"]
              /\ slots["check_in_date"] >= now \div TicksPerDay))
       \/ ("room_type" \in DOMAIN slots
             /\ slots["room_type"] \notin DOMAIN hotel_info.room_types)
       \/ ("num_guests" \in DOMAIN slots /\ slots["num_guests"] # 0
             /\ (slots["num_guests"] < MinGuests \/ slots["num_guests"] > MaxGuests))
    THEN /\ turn'.reply \in {DateError, RoomError, GuestRangeError}
         /\ turn'.saved = ""
         /\ bookings' = bookings
    ELSE IF DOMAIN slots # FieldSet
    THEN turn'.reply = ReplyText.Missing /\ bookings' = bookings
    ELSE turn'.reply \in {ReplyText.Confirmed, ReplyText.Price}

\* C19 as amended: while current_step is get_booking_details every accepted
\* turn that is classified as booking runs the Slot Extractor on the
\* utterance, merges the non-empty fields into booking_data and runs the
\* Validator; a turn classified as anything else goes to that intent's
\* handler, which leaves booking_data as it was.
C19_BookingTurnExtracts ==
  [][(/\ TurnTaken
      /\ turn'.loaded
      /\ turn'.before.current_step = "get_booking_details")
       => IF turn'.intent = "booking"
          THEN /\ turn'.trace = <<"booking">>
               /\ MergedThisTurn
               /\ ValidatedThisTurn
          ELSE /\ turn'.trace[1] = turn'.intent
               /\ states'[turn'.user_id].booking_data
                    = states[turn'.user_id].booking_data]_vars

\* in step get_booking_details a turn classified as booking merged a room
\* the catalog does not hold, and the Validator rejected it
C19_Witness ==
  /\ pc = "replied"
  /\ turn.intent = "booking"
  /\ turn.before.current_step = "get_booking_details"
  /\ turn.before.booking_data # EmptyDict
  /\ turn.message = MsgRoom
  /\ turn.reply = RoomError
  /\ states[turn.user_id].booking_data["room_type"] = "standard"

\* C20: the merge is last-write-wins per field: after a turn that processed
\* booking details each field holds the newly extracted value when one was
\* extracted and is not blank, and otherwise the value collected in earlier
\* turns; no field collected earlier is lost, until the booking is created
\* from exactly these slots and booking_data is cleared.
C20_MergeLastWriteWins ==
  [][(/\ TurnTaken
      /\ turn'.loaded
      /\ turn'.intent = "booking"
      /\ turn'.before.current_step \notin {"greeting", "inquiry"})
       => MergedThisTurn]_vars

\* a turn whose JSON held a new room and a blank name replaced the room
\* collected before and kept the name, the dates and the rest
C20_Witness ==
  /\ pc = "replied"
  /\ turn.intent = "booking"
  /\ turn.json = JsonExtra
  /\ turn.before.current_step = "get_booking_details"
  /\ "room_type" \in DOMAIN turn.before.booking_data
  /\ turn.before.booking_data["room_type"] = "standard"
  /\ "guest_name" \in DOMAIN turn.before.booking_data
  /\ "check_in_date" \in DOMAIN turn.before.booking_data
  /\ states[turn.user_id].booking_data
       = [turn.before.booking_data EXCEPT !["room_type"] = "suite"]

\* C21: in a turn of the booking flow whose merged booking_data holds a guest
\* count, with the date and room-type checks passing, a count outside 1..10
\* (0, a negative value, a value above 10) is rejected by the Validator and
\* no booking is created.
C21_GuestCountRejected ==
  [][(/\ TurnTaken
      /\ turn'.loaded
      /\ turn'.trace = <<"booking">>
      /\ turn'.before.current_step \notin {"greeting", "inquiry"})
       => \E slots \in {ExpectedSlots(turn'.before.booking_data,
                                       extract_booking_info(Stripped(turn'.message),
                                                            turn'.json))} :
            (/\ "num_guests" \in DOMAIN slots
             /\ DatesAndRoomPass(slots)
             /\ slots["num_guests"] \notin MinGuests..MaxGuests)
              => /\ turn'.reply = GuestRangeError
                 /\ bookings' = bookings]_vars

\* C22: every booking in the store is well-formed: check-out strictly after
\* check-in, a room type of the catalog, 1 to 10 guests, a non-empty guest
\* name, email and phone, and status confirmed or cancelled.
C22_BookingsWellFormed ==
  \A id \in DOMAIN bookings :
    /\ bookings[id].check_in_date # BadDate
    /\ bookings[id].check_out_date > bookings[id].check_in_date
    /\ bookings[id].room_type \in DOMAIN hotel_info.room_types
    /\ bookings[id].num_guests \in MinGuests..MaxGuests
    /\ bookings[id].guest_name # ""
    /\ bookings[id].guest_email # ""
    /\ bookings[id].guest_phone # ""
    /\ bookings[id].status \in {"confirmed", "cancelled"}

\* C22 without the guest count: what does hold of every stored booking
BookingsWellFormedButGuests ==
  \A id \in DOMAIN bookings :
    /\ bookings[id].check_in_date # BadDate
    /\ bookings[id].check_out_date > bookings[id].check_in_date
    /\ bookings[id].room_type \in DOMAIN hotel_info.room_types
    /\ bookings[id].num_guests \in 0..MaxGuests
    /\ bookings[id].guest_name # ""
    /\ bookings[id].guest_email # ""
    /\ bookings[id].guest_phone # ""
    /\ bookings[id].status \in {"confirmed", "cancelled"}

\* the fields of a stored booking that no turn may change
SameIdentity(b, c) ==
  /\ c.booking_id = b.booking_id
  /\ c.user_id = b.user_id
  /\ c.room_type = b.room_type
  /\ c.num_guests = b.num_guests
  /\ c.guest_name = b.guest_name
  /\ c.guest_email = b.guest_email
  /\ c.guest_phone = b.guest_phone
  /\ c.created_at = b.created_at

\* C23: a turn changes at most one stored booking, and only by a successful
\* reschedule, which changes its check_in_date, check_out_date, total_price
\* and updated_at only, or by a successful cancel, which changes its status
\* and updated_at only; booking_id, user_id, room_type, num_guests, the
\* contact fields and created_at of a stored booking never change.
C23_ChangesAreFramed ==
  [][TurnTaken
       => \A id \in DOMAIN bookings :
            /\ id \in DOMAIN bookings'
            /\ SameIdentity(bookings[id], bookings'[id])
            /\ bookings'[id] # bookings[id]
                 => /\ \A other \in DOMAIN bookings \ {id} : bookings'[other] = bookings[other]
                    /\ DOMAIN bookings' = DOMAIN bookings
                    /\ \/ /\ turn'.reply = ReplyText.Rescheduled
                          /\ bookings'[id].status = bookings[id].status
                       \/ /\ turn'.reply = ReplyText.Cancelled
                          /\ bookings'[id].check_in_date = bookings[id].check_in_date
                          /\ bookings'[id].check_out_date = bookings[id].check_out_date
                          /\ bookings'[id].total_price = bookings[id].total_price
                          /\ bookings[id].status = "confirmed"
                          /\ bookings'[id].status = "cancelled"]_vars

\* a reschedule went through, later than the booking was made, while another
\* guest's booking is in the store
C23_Witness ==
  /\ pc = "replied"
  /\ turn.reply = ReplyText.Rescheduled
  /\ Cardinality({id \in DOMAIN bookings : bookings[id].user_id # turn.user_id}) = 1
  /\ \E id \in DOMAIN bookings :
       /\ bookings[id].user_id = turn.user_id
       /\ bookings[id].updated_at > bookings[id].created_at
       /\ bookings[id].check_in_date = 2

\* what a reschedule turn in step reschedule_requested asks for: the booking
\* id the utterance names (upper-cased; "" when none) and the two dates the
\* Slot Extractor found
AskedMove(t) ==
  [booking_id |-> Upper(Lower(t.message.bk)),
   info |-> extract_booking_info(Stripped(t.message), t.json)]

\* the booking exists and is the requester's, both dates are there, check-in
\* is today or later and check-out is after check-in
MoveIsGood(t, bs) ==
  \E m \in {AskedMove(t)} :
    /\ m.booking_id \in DOMAIN bs
    /\ bs[m.booking_id].user_id = t.user_id
    /\ "check_in_date" \in DOMAIN m.info /\ "check_out_date" \in DOMAIN m.info
    /\ m.info["check_in_date"] # BadDate /\ m.info["check_out_date"] # BadDate
    /\ m.info["check_in_date"] >= now \div TicksPerDay
    /\ m.info["check_out_date"] > m.info["check_in_date"]

\* C24: in step reschedule_requested a reschedule turn updates a booking if
\* and only if the utterance names an existing booking id owned by the
\* requester and both new dates are present and pass the date check; then
\* the named booking gets the new dates and current_step becomes inquiry;
\* otherwise no booking changes and current_step stays reschedule_requested.
C24_RescheduleIffGood ==
  [][(/\ TurnTaken
      /\ turn'.loaded
      /\ turn'.intent = "reschedule"
      /\ turn'.before.current_step = "reschedule_requested")
       => IF MoveIsGood(turn', bookings)
          THEN /\ turn'.reply = ReplyText.Rescheduled
               /\ DOMAIN bookings' = DOMAIN bookings
               /\ \A id \in DOMAIN bookings :
                    IF id = AskedMove(turn').booking_id
                    THEN /\ bookings'[id].check_in_date = AskedMove(turn').info["check_in_date"]
                         /\ bookings'[id].check_out_date = AskedMove(turn').info["check_out_date"]
                    ELSE bookings'[id] = bookings[id]
               /\ states'[turn'.user_id].current_step = "inquiry"
          ELSE /\ bookings' = bookings
               /\ turn'.reply # ReplyText.Rescheduled
               /\ states'[turn'.user_id].current_step = "reschedule_requested"]_vars

\* a guest with a booking was asked for new dates, named the booking with two
\* good dates, and the booking moved
C24_Witness ==
  /\ pc = "replied"
  /\ turn.intent = "reschedule"
  /\ turn.before.current_step = "reschedule_requested"
  /\ turn.message = MsgMove("bk1")
  /\ turn.reply = ReplyText.Rescheduled
  /\ states[turn.user_id].current_step = "inquiry"
  /\ bookings["BK1"].check_in_date = 2 /\ bookings["BK1"].check_out_date = 3

\* C25: while a user has two or more confirmed bookings no cancel turn
\* changes any booking, and a cancel turn that holds the confirmation
\* phrase, with or without a booking id, only asks which booking id is
\* meant and leaves current_step as it was.
C25_ManyBookingsNeverCancelled ==
  [][(/\ TurnTaken
      /\ turn'.loaded
      /\ turn'.intent = "cancel"
      /\ Cardinality(ConfirmedOf(bookings, turn'.user_id)) >= 2)
       => /\ bookings' = bookings
          /\ turn'.message.phrase \in ConfirmPhrases
               => /\ turn'.reply = ReplyText.WhichBooking
                  /\ states'[turn'.user_id].current_step
                       = states[turn'.user_id].current_step]_vars

\* a guest with two confirmed bookings typed the confirmation phrase and the
\* id of one of them, and both bookings are still confirmed
C25_Witness ==
  /\ pc = "replied"
  /\ turn.intent = "cancel"
  /\ turn.message = MsgConfirmId("bk1")
  /\ turn.reply = ReplyText.WhichBooking
  /\ "BK1" \in ConfirmedOf(bookings, turn.user_id)
  /\ "BK2" \in ConfirmedOf(bookings, turn.user_id)
  /\ states[turn.user_id].current_step = turn.before.current_step

\* C26: the status of a stored booking changes only from confirmed to
\* cancelled, and only in a turn classified as cancel whose utterance holds
\* the phrase "confirm cancel" in any letter case; a cancel turn without
\* the phrase and a turn of any other intent change no status.
C26_CancelNeedsConfirmation ==
  [][TurnTaken
       => \A id \in DOMAIN bookings :
            bookings'[id].status # bookings[id].status
              => /\ bookings[id].status = "confirmed"
                 /\ bookings'[id].status = "cancelled"
                 /\ turn'.intent = "cancel"
                 /\ turn'.message.phrase \in ConfirmPhrases]_vars

\* a guest with one confirmed booking asked to cancel without the phrase: the
\* booking was shown and is still confirmed
C26_Witness ==
  /\ pc = "replied"
  /\ turn.intent = "cancel"
  /\ turn.message.phrase = ""
  /\ turn.reply = ReplyText.CancelOne
  /\ Cardinality(ConfirmedOf(bookings, turn.user_id)) = 1
  /\ states[turn.user_id].current_step = "cancel_requested"

\* a turn that leaves the booking flow: a greeting, or the start of a
\* reschedule or of a cancellation
LeavesBookingFlow(t) ==
  \/ t.trace = <<"greeting">>
  \/ /\ t.intent = "reschedule"
     /\ t.before.current_step # "reschedule_requested"
     /\ t.state.current_step = "reschedule_requested"
  \/ /\ t.intent = "cancel"
     /\ t.state.current_step = "cancel_requested"

\* C27: booking_data is empty after a turn that created a booking and after
\* a turn that leaves the booking flow (a greeting, or the start of a
\* reschedule or cancel), so slots collected earlier are not carried into a
\* later booking.
C27_TopicChangeClearsSlots ==
  [][(/\ TurnTaken
      /\ turn'.loaded
      /\ (turn'.saved = "true" /\ turn'.intent = "booking") \/ LeavesBookingFlow(turn'))
       => states'[turn'.user_id].booking_data = EmptyDict]_vars

\* what does hold: booking_data is emptied by the turn that creates a booking
SlotsClearedOnCreation ==
  [][(TurnTaken /\ turn'.loaded /\ turn'.saved = "true" /\ turn'.intent = "booking")
       => states'[turn'.user_id].booking_data = EmptyDict]_vars

\* C28: a booking turn that starts in step booking_complete re-enters the
\* booking flow at its start: the reply is the catalog with the field
\* checklist, current_step becomes get_booking_details, and the utterance is
\* not processed as booking details, so no booking is written.
C28_CompleteIsTerminal ==
  [][(/\ TurnTaken
      /\ turn'.loaded
      /\ turn'.intent = "booking"
      /\ turn'.before.current_step = "booking_complete")
       => /\ turn'.reply \in {ReplyText.Checklist, ReplyText.NoRooms}
          /\ states'[turn'.user_id].current_step = "get_booking_details"
          /\ bookings' = bookings]_vars

\* what the code does in step booking_complete: the booking turn is handled
\* by _process_booking_details, and the step changes only if it books again
BookingAfterCompleteIsDetails ==
  [][(/\ TurnTaken
      /\ turn'.loaded
      /\ turn'.intent = "booking"
      /\ turn'.before.current_step = "booking_complete")
       => /\ turn'.reply \notin {ReplyText.Checklist, ReplyText.NoRooms}
          /\ states'[turn'.user_id].current_step = "booking_complete"]_vars

\* C29: with turns taken one at a time a booking enters the store as
\* confirmed, and a booking that is cancelled stays cancelled whatever turn
\* follows: booking, reschedule, cancel, greeting or inquiry.
C29_StatusOnlyMovesToCancelled ==
  [][/\ \A id \in DOMAIN bookings :
          /\ id \in DOMAIN bookings'
          /\ bookings[id].status = "cancelled" => bookings'[id].status = "cancelled"
          /\ bookings'[id].status \in {"confirmed", "cancelled"}
     /\ \A id \in DOMAIN bookings' \ DOMAIN bookings :
          bookings'[id].status = "confirmed"]_vars

\* the guest cancelled BK1, booked again, and then moved BK1 to new dates:
\* the reschedule went through and BK1 is still cancelled
C29_Witness ==
  /\ pc = "replied"
  /\ turn.reply = ReplyText.Rescheduled
  /\ turn.message = MsgMove("bk1")
  /\ bookings["BK1"].status = "cancelled"
  /\ bookings["BK1"].check_in_date = 2
  /\ "BK2" \in DOMAIN bookings /\ bookings["BK2"].status = "confirmed"

\* the dates of an utterance that _normalize_date accepts, in their order of
\* appearance in the utterance
DatesAsWritten(message) ==
  LET found == SelectSeq(message.dates, LAMBDA t : t.known)
  IN [i \in 1..Len(found) |-> found[i].day]

\* C30: after a call of the rule-based extractor, with two or more dates
\* that normalize, check_in_date is the one that appears first in the
\* utterance and check_out_date the one that appears second, whatever their
\* formats; with exactly one, it is check_in_date only when a check-in
\* keyword is present, check_out_date only when a check-out keyword is
\* present, and otherwise neither field is set.
C30_DatesInOrderOfAppearance ==
  probe.called =>
    \E nd \in {DatesAsWritten(probe.message)} :
      /\ Len(nd) >= 2 =>
            /\ "check_in_date" \in DOMAIN probe.result
            /\ "check_out_date" \in DOMAIN probe.result
            /\ probe.result["check_in_date"] = nd[1]
            /\ probe.result["check_out_date"] = nd[2]
      /\ Len(nd) = 1 =>
            /\ "check_in_date" \in DOMAIN probe.result
                 => /\ probe.message.datekw \in {"check in", "both"}
                    /\ probe.result["check_in_date"] = nd[1]
            /\ "check_out_date" \in DOMAIN probe.result
                 => /\ probe.message.datekw \in {"check out", "both"}
                    /\ probe.result["check_out_date"] = nd[1]
            /\ probe.message.datekw = ""
                 => DOMAIN probe.result \cap DateFields = {}
      /\ Len(nd) = 0 => DOMAIN probe.result \cap DateFields = {}

\* what the extractor does instead: the dates are taken format by format,
\* the YYYY-M-D ones first, then the M/D/YYYY ones, then the D Month YYYY
\* ones, and within one format in their order of appearance; the first two
\* are the dates as written when no date of an earlier format follows a
\* date of a later one
DatesTakenFormatByFormat ==
  probe.called =>
    \E nd \in {DatesAsWritten(probe.message)} :
      \E ds \in {SelectSeq(probe.message.dates, LAMBDA t : t.known)} :
        (/\ Len(nd) >= 2
         /\ \A i, j \in 1..Len(ds) :
              i < j => FormatRank(ds[i].fmt) <= FormatRank(ds[j].fmt))
          => /\ probe.result["check_in_date"] = nd[1]
             /\ probe.result["check_out_date"] = nd[2]

\* the catalog keys that occur in the lower-cased utterance, in catalog order
KeysInUtterance(info, message) ==
  SelectSeq(CatalogOrder(info), LAMBDA r : r \in {Lower(w) : w \in message.rooms})

\* C31: after a call of the Slot Extractor under any catalog, a room_type in
\* the result is a key of that catalog, and when the service gave no JSON
\* the room_type is the first catalog key, in catalog order, that occurs in
\* the lower-cased utterance, and is absent when none occurs.
C31_RoomTypeIsCatalogKey ==
  probe.called =>
    /\ "room_type" \in DOMAIN probe.result
         => probe.result["room_type"] \in DOMAIN hotel_info.room_types
    /\ probe.json = NoJson =>
         \E keys \in {KeysInUtterance(hotel_info, probe.message)} :
           IF keys = <<>> THEN "room_type" \notin DOMAIN probe.result
           ELSE /\ "room_type" \in DOMAIN probe.result
                /\ probe.result["room_type"] = keys[1]

\* what the extractor does instead: the catalog is not read.  Without JSON
\* the room_type is the first of standard, deluxe, suite that occurs, and a
\* string of the service is kept only when it is one of the three
RoomTypeFromFixedList ==
  probe.called =>
    /\ probe.json = NoJson =>
         \E keys \in {KeysInUtterance(FallbackHotelData, probe.message)} :
           IF keys = <<>> THEN "room_type" \notin DOMAIN probe.result
           ELSE probe.result["room_type"] = keys[1]
    /\ (probe.json # NoJson /\ probe.json.data["room_type"].t = "str"
          /\ "room_type" \in DOMAIN probe.result)
         => probe.result["room_type"] \in DOMAIN FallbackHotelData.room_types
    /\ "room_type" \in DOMAIN probe.result => probe.result["room_type"] # "penthouse"

C33_SendTriesAtMostThrice ==
  \E n \in {Len(probe.posts)} :
    /\ n <= MaxRetries
    /\ \A i \in 1..(n - 1) :
         /\ probe.posts[i] = 0 \/ probe.posts[i] >= 500
    /\ (probe.recipient_id = "" \/ probe.message_text = "") => n = 0
    /\ probe.returned = "True" <=> (n > 0 /\ probe.posts[n] \in 200..399)
    /\ probe.returned = "True" => probe.pc = "done"
    /\ probe.pc = "done" =>
         /\ probe.returned \in {"True", "False"}
         /\ probe.returned = "False" =>
              \/ n = 0 /\ (probe.recipient_id = "" \/ probe.message_text = "")
              \/ n > 0 /\ probe.posts[n] \in 400..499
              \/ n = MaxRetries /\ (probe.posts[n] = 0 \/ probe.posts[n] >= 500)
    /\ (n > 0 /\ probe.posts[n] \in 400..499) => probe.pc \in {"after_loop", "done"}

\* two attempts failed on the server's side, the third met a client error,
\* and the call returned False
C33_Witness ==
  /\ probe.pc = "done"
  /\ probe.returned = "False"
  /\ probe.posts = <<503, 0, 400>>

\* every call of send_message returns
SendReturns == <>(probe.pc = "done")

\* C34: no turn changes the dates or the price of a booking whose status
\* is cancelled; in particular a reschedule turn in step
\* reschedule_requested that names a cancelled booking with valid new dates
\* leaves that booking as it was.
C34_CancelledBookingNeverMoved ==
  [][\A id \in DOMAIN bookings :
       bookings[id].status = "cancelled" =>
         /\ id \in DOMAIN bookings'
         /\ bookings'[id].check_in_date = bookings[id].check_in_date
         /\ bookings'[id].check_out_date = bookings[id].check_out_date
         /\ bookings'[id].total_price = bookings[id].total_price]_vars

\* what holds instead: a reschedule turn enters step reschedule_requested
\* only while the guest has a confirmed booking, and the booking a turn
\* moves is one the guest owns, of either status
RescheduleChecksOwnerNotStatus ==
  [][(pc = "idle" /\ pc' = "replied") =>
       /\ \A id \in DOMAIN bookings :
            bookings'[id].check_in_date # bookings[id].check_in_date
              => /\ turn'.intent = "reschedule"
                 /\ turn'.before.current_step = "reschedule_requested"
                 /\ bookings[id].user_id = turn'.user_id
                 /\ bookings'[id].status = bookings[id].status
       /\ (turn'.intent = "reschedule" /\ ~turn'.raised
            /\ turn'.before.current_step # "reschedule_requested"
            /\ turn'.state.current_step = "reschedule_requested")
           => ConfirmedOf(bookings, turn'.user_id) # {}]_vars

\* C35: a booking's status becomes cancelled only in a turn that starts
\* with current_step = cancel_requested, that is after an earlier cancel
\* turn presented the booking and asked for the confirmation.
C35_CancelOnlyWhenRequested ==
  [][\A id \in DOMAIN bookings :
       (bookings[id].status = "confirmed" /\ bookings'[id].status = "cancelled")
         => /\ pc' = "replied"
            /\ turn'.before.current_step = "cancel_requested"]_vars

\* C36: when calls for the same guest and the same booking overlap, a
\* booking whose cancellation has been saved is never written back as
\* confirmed: once a call has replied that the booking is cancelled, the
\* stored status is cancelled and stays so.
C36_CancellationSurvivesOverlap ==
  (\E w \in Workers : inflight[w].reply = ReplyText.Cancelled)
    => bookings["BK1"].status = "cancelled"

\* what the overlap makes of the whole-object save: the reschedule that
\* read the booking before the cancellation was saved writes it back
\* confirmed, with its new dates
CancellationLostInOverlap ==
  /\ \E w \in Workers : inflight[w].reply = ReplyText.Cancelled
  /\ \E w \in Workers : inflight[w].reply = ReplyText.Rescheduled
  /\ bookings["BK1"].status = "confirmed"
  /\ bookings["BK1"].check_in_date = 2

\* calls that do not overlap inside their handlers keep the cancellation
CancellationKeptWithoutOverlap ==
  [][(\A w \in Workers : inflight[w].pc # "read" \/ inflight'[w].pc # "handled"
                            \/ inflight[w].seen = bookings)
       => (bookings["BK1"].status = "cancelled" => bookings'["BK1"].status = "cancelled")]_vars

\* C37: when a turn is answered with a rejection of the Validator (date
\* range, room type, guest count), the booking_data stored at the end of
\* the turn is the booking_data the turn started with.
C37_RejectedInputNotStored ==
  [][(TurnTaken /\ turn'.reply \in {DateError, RoomError, GuestRangeError})
       => /\ turn'.user_id \in DOMAIN states'
          /\ states'[turn'.user_id].booking_data = turn'.before.booking_data]_vars

\* what is stored instead: the slots merged with what the turn extracted,
\* the rejected value included, so that the next turn is rejected again
\* although its own utterance holds nothing wrong
RejectedInputIsStored ==
  [][(TurnTaken /\ turn'.reply \in {DateError, RoomError, GuestRangeError})
       => /\ states'[turn'.user_id].booking_data
               = ExpectedSlots(turn'.before.booking_data,
                               extract_booking_info(Stripped(turn'.message), turn'.json))
          /\ _validate_booking_input(states'[turn'.user_id].booking_data,
                                     hotel_info, now) = turn'.reply]_vars

\* C38: a turn handled as inquiry leaves current_step and booking_data as
\* the turn found them and leaves every booking as it was, whatever the
\* utterance holds.
C38_InquiryChangesNothing ==
  [][(TurnTaken /\ turn'.loaded /\ turn'.intent = "inquiry")
       => /\ bookings' = bookings
          /\ turn'.state.current_step = turn'.before.current_step
          /\ turn'.state.booking_data = turn'.before.booking_data
          /\ turn'.user_id \in DOMAIN states'
          /\ states'[turn'.user_id].current_step = turn'.before.current_step
          /\ states'[turn'.user_id].booking_data = turn'.before.booking_data]_vars

\* what holds instead: an inquiry turn never touches booking_data or a
\* booking, and it keeps the step unless the utterance holds a greeting
\* word, in which case the greeting handler sets the step to greeting
InquiryKeepsStepUnlessGreeted ==
  [][(TurnTaken /\ turn'.loaded /\ turn'.intent = "inquiry")
       => /\ bookings' = bookings
          /\ states'[turn'.user_id].booking_data = turn'.before.booking_data
          /\ states'[turn'.user_id].current_step =
               IF "hi" \in turn'.message.kws THEN "greeting"
               ELSE turn'.before.current_step]_vars

\* C39: a booking enters the store only in a turn that starts with
\* current_step = get_booking_details; a booking turn that starts in
\* reschedule_requested, cancel_requested or booking_complete creates none.
C39_CreatedOnlyFromDetailsStep ==
  [][DOMAIN bookings' # DOMAIN bookings
       => /\ TurnTaken
          /\ turn'.before.current_step = "get_booking_details"]_vars

\* what holds instead: a booking enters the store only in a turn
\* classified as booking that starts in any step but greeting and inquiry
CreatedFromAnyLaterStep ==
  [][DOMAIN bookings' # DOMAIN bookings
       => /\ TurnTaken
          /\ turn'.intent = "booking"
          /\ turn'.before.current_step \notin {"greeting", "inquiry"}]_vars

\* a reschedule turn in step reschedule_requested whose utterance names no
\* booking id and holds two dates that pass the date check, sent by a guest
\* with exactly one confirmed booking
DatesOnlyMove(t, bs) ==
  \E m \in {AskedMove(t)} :
    /\ t.loaded
    /\ t.intent = "reschedule"
    /\ t.before.current_step = "reschedule_requested"
    /\ Cardinality(ConfirmedOf(bs, t.user_id)) = 1
    /\ m.booking_id = ""
    /\ "check_in_date" \in DOMAIN m.info /\ "check_out_date" \in DOMAIN m.info
    /\ m.info["check_in_date"] # BadDate /\ m.info["check_out_date"] # BadDate
    /\ m.info["check_in_date"] >= now \div TicksPerDay
    /\ m.info["check_out_date"] > m.info["check_in_date"]

\* C40: when the guest has exactly one confirmed booking and is in step
\* reschedule_requested, a reschedule turn that gives two valid new dates
\* and no booking id moves that booking to the new dates and sets
\* current_step to inquiry.
C40_DatesAloneReschedule ==
  [][(TurnTaken /\ DatesOnlyMove(turn', bookings))
       => /\ turn'.reply = ReplyText.Rescheduled
          /\ \A id \in ConfirmedOf(bookings, turn'.user_id) :
               /\ bookings'[id].check_in_date = AskedMove(turn').info["check_in_date"]
               /\ bookings'[id].check_out_date = AskedMove(turn').info["check_out_date"]
          /\ states'[turn'.user_id].current_step = "inquiry"]_vars

\* what happens instead: the guest is asked for the booking id, no booking
\* changes and the step stays reschedule_requested
DatesAloneAreRefused ==
  [][(TurnTaken /\ DatesOnlyMove(turn', bookings))
       => /\ turn'.reply = ReplyText.NeedId
          /\ bookings' = bookings
          /\ states'[turn'.user_id].current_step = "reschedule_requested"]_vars

====
